---- MODULE Spec2Model ----
(***************************************************************************)
(* Order / inventory consistency core of diva-backend-prod.                *)
(*                                                                         *)
(* The store (product, order, order_item, user tables) is shared state.    *)
(* Every HTTP handler runs in a request slot; one step of a slot is one    *)
(* store operation taking effect followed by the synchronous code that     *)
(* runs up to the next awaited store operation.  Slots interleave at the   *)
(* awaits, as the handlers do on the Node event loop.                      *)
(***************************************************************************)
EXTENDS Integers, Sequences, FiniteSets, TLC

\* ---------------------------------------------------------------- bounds
MaxStock == 2
MaxQty == 2
MaxOrders == 3
MaxTicks == 3

\* ------------------------------------------------------ program constants
HoldHours == 48
MaxOpenHolds == 2

Products == {"P1", "P2"}
Users == {"u1", "u2"}
Slots == {1, 2}
OrderIds == 1..MaxOrders

\* The clock advances in steps of half a reservation window.
TickHours == HoldHours \div 2
MaxTime == MaxTicks * TickHours

VARIABLES product, order, order_item, user, nextOrderId, sentCancelEmails, now, req

vars == <<product, order, order_item, user, nextOrderId, sentCancelEmails, now, req>>

store == <<product, order, order_item, user, nextOrderId>>

\* ------------------------------------------------------------ pure helpers
Max(a, b) == IF a >= b THEN a ELSE b

\* Number.parseInt(String(qty), 10), then "finite and > 0, else 1".
ParseQty(qty) == IF qty > 0 THEN qty ELSE 1

\* Date.prototype.toISOString(): a fixed-width, zero-padded rendering; the
\* model keeps the hour count as three decimal digits.
ToISO(t) == <<(t \div 100) % 10, (t \div 10) % 10, t % 10>>

\* JavaScript string comparison a > b: lexicographic, position by position.
RECURSIVE StrGreater(_, _)
StrGreater(a, b) ==
  IF a = <<>> THEN FALSE
  ELSE IF b = <<>> THEN TRUE
  ELSE IF Head(a) # Head(b) THEN Head(a) > Head(b)
  ELSE StrGreater(Tail(a), Tail(b))

\* (o.status || '').toLowerCase() on the statuses the program writes.
ToLower(st) ==
  CASE st = "Pending" -> "pending"
    [] st = "Shipped" -> "shipped"
    [] st = "Delivered" -> "delivered"
    [] st = "Canceled" -> "canceled"
    [] OTHER -> st

\* ------------------------------------------------------------ request slot
IdleReq ==
  [kind |-> "idle", pc |-> "idle", user |-> "none", admin |-> FALSE,
   items |-> <<>>, rows |-> <<>>, holds |-> <<>>, prods |-> <<>>,
   oid |-> 0, idx |-> 0, hidx |-> 0,
   lpc |-> "none", pid |-> "none", qty |-> 0, cur |-> 0,
   info |-> <<>>, arg |-> <<>>, t |-> 0, nowIso |-> <<>>,
   n1 |-> 0, n2 |-> 0, resp |-> 0, mails |-> 0, errPid |-> "none", q0 |-> <<>>,
   failed |-> 0, rbErr |-> FALSE, mdone |-> 0, mfail |-> 0]

Free(r) == req[r].pc \in {"idle", "done"}

AllFree == \A r \in Slots : Free(r)

\* res.status(code).json(...): the handler is over; its locals are gone.
Reply(s, code) ==
  [IdleReq EXCEPT !.kind = s.kind, !.pc = "done", !.resp = code, !.user = s.user,
                  !.oid = s.oid, !.n1 = s.n1, !.n2 = s.n2, !.failed = s.failed]

\* Enter decrementProductQuantity / incrementProductQuantity for one item.
CallDecrement(s, p, q) == [s EXCEPT !.lpc = "rpc", !.pid = p, !.qty = ParseQty(q)]

CallIncrement(s, p, q) == [s EXCEPT !.lpc = "iread", !.pid = p, !.qty = ParseQty(q)]


\* Number(it.quantity || 1)
NumQty(q) == IF q = 0 THEN 1 ELSE q

\* --------------------------------------------------------- order helpers
\* shipping_info is a JSON bag; the model keeps the keys the handlers read.
ShippingInfo(method, pay, exp) ==
  [shipping_method |-> method, payment_status |-> pay,
   reservation_expires_at |-> exp, expired_at |-> <<>>]

ItemsOf(oid) == SelectSeq(order_item, LAMBDA it : it.order_id = oid)

RECURSIVE SumQty(_, _)
SumQty(rows, p) ==
  IF rows = <<>> THEN 0
  ELSE (IF Head(rows).product_id = p THEN Head(rows).quantity ELSE 0) + SumQty(Tail(rows), p)

\* createPickupOrder: the filter over existingReservations.
OpenHolds(u) ==
  {o \in DOMAIN order :
     /\ order[o].user_id = u
     /\ order[o].shipping_info.shipping_method = "local_pickup"
     /\ ToLower(order[o].status) \in {"awaiting_pickup", "pending"}}

InsufficientStockOffByOne(available, qty) == available + 1 < qty

\* createPickupOrder: if (available < qty) return 409
InsufficientStock(available, qty) == available < qty

\* createPickupOrder: the validation loop over items, first failure wins.
RECURSIVE ValidateItems(_, _, _)
ValidateItems(items, prods, subtotal) ==
  IF items = <<>> THEN [code |-> 0, pid |-> "none", available |-> 0, subtotal |-> subtotal]
  ELSE LET it == Head(items)
           qty == NumQty(it.quantity)
       IN IF qty <= 0 THEN [code |-> 400, pid |-> "none", available |-> 0, subtotal |-> subtotal]
          ELSE IF it.id \notin DOMAIN prods
            THEN [code |-> 400, pid |-> it.id, available |-> 0, subtotal |-> subtotal]
          ELSE IF InsufficientStock(prods[it.id].quantity, qty)
            THEN [code |-> 409, pid |-> it.id, available |-> prods[it.id].quantity, subtotal |-> subtotal]
          ELSE ValidateItems(Tail(items), prods, subtotal + prods[it.id].price * qty)

HoldQualifiesIgnoringExpiry(h, nowIso) ==
  /\ h.shipping_info.reservation_expires_at # <<>>
  /\ ToLower(h.shipping_info.payment_status) # "paid"

\* cancelExpiredPickupHolds: the two "continue" tests of the loop body.
HoldQualifies(h, nowIso) ==
  LET exp == h.shipping_info.reservation_expires_at
  IN /\ exp # <<>>
     /\ ~StrGreater(exp, nowIso)
     /\ ToLower(h.shipping_info.payment_status) # "paid"

\* cancelExpiredPickupHolds: run the loop from hold i on, up to the next
\* awaited query (the item fetch of the first hold that qualifies).
RECURSIVE ExpiryAdvance(_, _)
ExpiryAdvance(s, i) ==
  IF i > Len(s.holds) THEN [Reply(s, 200) EXCEPT !.hidx = i]
  ELSE IF HoldQualifies(s.holds[i], s.nowIso)
    THEN [s EXCEPT !.pc = "ce_items", !.hidx = i, !.oid = s.holds[i].id]
  ELSE ExpiryAdvance(s, i + 1)

\* Start the restock / decrement loop at row 1, or skip it when empty.
LoopOrElse(s, seq, isDec, pcLoop, pcAfter) ==
  IF seq = <<>> THEN [s EXCEPT !.pc = pcAfter, !.idx = 1]
  ELSE IF isDec
    THEN CallDecrement([s EXCEPT !.pc = pcLoop, !.idx = 1], seq[1].id, NumQty(seq[1].quantity))
  ELSE CallIncrement([s EXCEPT !.pc = pcLoop, !.idx = 1], seq[1].product_id, seq[1].quantity)

\* What the caller does when one ledger call returns {data, error}.
AfterLedger(s, err) ==
  LET i == s.idx + 1
      t == [s EXCEPT !.idx = i, !.lpc = "none",
                     !.failed = IF err /\ s.kind \in {"createOrder", "createPickupOrder"} THEN @ + 1 ELSE @]
  IN CASE s.kind \in {"decrement", "increment"} ->
            [Reply(s, 0) EXCEPT !.n1 = IF err THEN 0 ELSE 1, !.n2 = IF err THEN 1 ELSE 0,
                                !.pid = s.pid, !.qty = s.qty, !.cur = s.cur]
       [] s.kind = "createPickupOrder" ->
            IF i > Len(s.items) THEN [Reply(t, 201) EXCEPT !.mails = 2]
            ELSE CallDecrement(t, s.items[i].id, NumQty(s.items[i].quantity))
       [] s.kind = "createOrder" ->
            IF i > Len(s.items) THEN [t EXCEPT !.pc = "co_points"]
            ELSE CallDecrement(t, s.items[i].id, NumQty(s.items[i].quantity))
       [] s.kind = "cancelOrder" ->
            LET u == [t EXCEPT !.n1 = IF err THEN @ ELSE @ + 1, !.n2 = IF err THEN @ + 1 ELSE @]
            IN IF i > Len(s.rows) THEN [u EXCEPT !.pc = "ca_update"]
               ELSE CallIncrement(u, s.rows[i].product_id, s.rows[i].quantity)
       [] s.kind = "cancelExpired" ->
            LET u == [t EXCEPT !.n2 = IF err THEN @ ELSE @ + 1]
            IN IF i > Len(s.rows) THEN [u EXCEPT !.pc = "ce_update"]
               ELSE CallIncrement(u, s.rows[i].product_id, s.rows[i].quantity)

\* ------------------------------------------------------ Inventory Ledger
\* decrementProductQuantity, preferred path: the decrement_product_quantity
\* RPC, one atomic statement in the database.
DecrementRpc(r) ==
  /\ req[r].lpc = "rpc"
  /\ product' = [product EXCEPT ![req[r].pid].quantity = Max(0, @ - req[r].qty)]
  /\ req' = [req EXCEPT ![r] = AfterLedger(@, FALSE)]
  /\ UNCHANGED <<order, order_item, user, nextOrderId, sentCancelEmails, now>>

\* The RPC returned an error or threw: fall through to read-then-write.
DecrementRpcMissing(r) ==
  /\ req[r].lpc = "rpc"
  /\ req' = [req EXCEPT ![r].lpc = "dread"]
  /\ UNCHANGED <<store, sentCancelEmails, now>>

\* Fallback: select quantity.
DecrementSelect(r) ==
  /\ req[r].lpc = "dread"
  /\ req' = [req EXCEPT ![r].cur = product[req[r].pid].quantity, ![r].lpc = "dwrite"]
  /\ UNCHANGED <<store, sentCancelEmails, now>>

DecrementNewQtyUnclamped(currentQty, pQty) == currentQty - pQty

\* newQty = Math.max(0, currentQty - pQty)
DecrementNewQty(currentQty, pQty) == Max(0, currentQty - pQty)

DecrementUpdateOnFreshRead(r) ==
  /\ req[r].lpc = "dwrite"
  /\ product' = [product EXCEPT ![req[r].pid].quantity = DecrementNewQty(@, req[r].qty)]
  /\ req' = [req EXCEPT ![r] = AfterLedger(@, FALSE)]
  /\ UNCHANGED <<order, order_item, user, nextOrderId, sentCancelEmails, now>>

\* Fallback: update quantity with the value computed from the earlier read.
DecrementUpdate(r) ==
  /\ req[r].lpc = "dwrite"
  /\ product' = [product EXCEPT ![req[r].pid].quantity = DecrementNewQty(req[r].cur, req[r].qty)]
  /\ req' = [req EXCEPT ![r] = AfterLedger(@, FALSE)]
  /\ UNCHANGED <<order, order_item, user, nextOrderId, sentCancelEmails, now>>

\* incrementProductQuantity: select quantity.
IncrementSelect(r) ==
  /\ req[r].lpc = "iread"
  /\ req' = [req EXCEPT ![r].cur = product[req[r].pid].quantity, ![r].lpc = "iwrite"]
  /\ UNCHANGED <<store, sentCancelEmails, now>>

IncrementNewQtyByOne(current, inc) == current + 1

\* quantity: current + inc
IncrementNewQty(current, inc) == current + inc

\* incrementProductQuantity: update quantity = current + inc.
IncrementUpdate(r) ==
  /\ req[r].lpc = "iwrite"
  /\ product' = [product EXCEPT ![req[r].pid].quantity = IncrementNewQty(req[r].cur, req[r].qty)]
  /\ req' = [req EXCEPT ![r] = AfterLedger(@, FALSE)]
  /\ UNCHANGED <<order, order_item, user, nextOrderId, sentCancelEmails, now>>

LedgerStoreErrorAborts(r) ==
  /\ req[r].lpc \in {"dread", "dwrite", "iread", "iwrite"}
  /\ req' = [req EXCEPT ![r] = [Reply(@, 500) EXCEPT !.failed = @ + 1]]
  /\ UNCHANGED <<store, sentCancelEmails, now>>

\* A select or update of the ledger returns an error: the call returns
\* {data: null, error} and the product row is left as it was.
LedgerStoreError(r) ==
  /\ req[r].lpc \in {"dread", "dwrite", "iread", "iwrite"}
  /\ req' = [req EXCEPT ![r] = AfterLedger(@, TRUE)]
  /\ UNCHANGED <<store, sentCancelEmails, now>>

\* A direct call of the exported ledger functions.
StartDecrement(r, p, q) ==
  /\ Free(r)
  /\ req' = [req EXCEPT ![r] = CallDecrement([IdleReq EXCEPT !.kind = "decrement", !.pc = "ledger"], p, q)]
  /\ UNCHANGED <<store, sentCancelEmails, now>>

StartIncrement(r, p, q) ==
  /\ Free(r)
  /\ product[p].quantity + ParseQty(q) <= MaxStock
  /\ \A o \in Slots : req[o].lpc \in {"dwrite", "iwrite"} => req[o].cur <= MaxStock
  /\ req' = [req EXCEPT ![r] = CallIncrement([IdleReq EXCEPT !.kind = "increment", !.pc = "ledger"], p, q)]
  /\ UNCHANGED <<store, sentCancelEmails, now>>

Ledger(r) ==
  \/ DecrementRpc(r)
  \/ DecrementRpcMissing(r)
  \/ DecrementSelect(r)
  \/ DecrementUpdate(r)
  \/ IncrementSelect(r)
  \/ IncrementUpdate(r)

\* ---------------------------------------------------- createPickupOrder
\* Room in the bounded order table for the requests already under way.
Creating == {r \in Slots : req[r].kind \in {"createPickupOrder", "createOrder"} /\ req[r].pc # "done" /\ req[r].oid = 0}

HasRoom == nextOrderId + Cardinality(Creating) <= MaxOrders

ItemIds(items) == {items[i].id : i \in DOMAIN items}

StartCreatePickupOrder(r, u, items) ==
  /\ Free(r)
  /\ HasRoom
  /\ LET s == [IdleReq EXCEPT !.kind = "createPickupOrder", !.user = u, !.items = items]
     IN req' = [req EXCEPT ![r] = IF items = <<>> THEN Reply(s, 400) ELSE [s EXCEPT !.pc = "cp_holds"]]
  /\ UNCHANGED <<store, sentCancelEmails, now>>

HoldLimitReachedOffByOne(openCount) == openCount > MaxOpenHolds

\* if (openCount >= 2) return 429
HoldLimitReached(openCount) == openCount >= MaxOpenHolds

\* select existing reservations of the user; count the open ones.
PickupHoldLookup(r) ==
  /\ req[r].pc = "cp_holds"
  /\ req' = [req EXCEPT ![r] =
       IF HoldLimitReached(Cardinality(OpenHolds(@.user))) THEN Reply(@, 429)
       ELSE [@ EXCEPT !.pc = "cp_products"]]
  /\ UNCHANGED <<store, sentCancelEmails, now>>

\* existingErr: the lookup failed; the handler warns and goes on.
PickupHoldLookupError(r) ==
  /\ req[r].pc = "cp_holds"
  /\ req' = [req EXCEPT ![r].pc = "cp_products"]
  /\ UNCHANGED <<store, sentCancelEmails, now>>

ReservationExpiresAtHalfWindow(t) == ToISO(t + TickHours)

\* expiresAt = now + 48h, rendered with toISOString()
ReservationExpiresAt(t) == ToISO(t + HoldHours)

\* select the products of the items, validate, price the order.
PickupFetchProducts(r) ==
  /\ req[r].pc = "cp_products"
  /\ LET s == req[r]
         prods == [p \in ItemIds(s.items) \cap DOMAIN product |-> product[p]]
         v == ValidateItems(s.items, prods, 0)
     IN req' = [req EXCEPT ![r] =
          IF Cardinality(DOMAIN prods) # Len(s.items) THEN Reply(s, 400)
          ELSE IF v.code # 0 THEN [Reply(s, v.code) EXCEPT !.errPid = v.pid, !.n1 = v.available, !.items = s.items]
          ELSE [s EXCEPT !.pc = "cp_insert", !.prods = prods, !.n1 = v.subtotal, !.t = now]]
  /\ UNCHANGED <<store, sentCancelEmails, now>>

PickupOrderRow(s) ==
  [user_id |-> s.user, status |-> "awaiting_pickup", total_amount |-> Max(0, s.n1),
   tracking_code |-> "Pickup", points_used |-> 0,
   shipping_info |-> ShippingInfo("local_pickup", "unpaid", ReservationExpiresAt(s.t))]

PickupInsertOrder(r) ==
  /\ req[r].pc = "cp_insert"
  /\ order' = order @@ (nextOrderId :> PickupOrderRow(req[r]))
  /\ nextOrderId' = nextOrderId + 1
  /\ req' = [req EXCEPT ![r].pc = "cp_items", ![r].oid = nextOrderId]
  /\ UNCHANGED <<product, order_item, user, sentCancelEmails, now>>

PickupItemsPayload(s) ==
  [i \in DOMAIN s.items |->
     [order_id |-> s.oid, product_id |-> s.items[i].id,
      quantity |-> NumQty(s.items[i].quantity),
      price |-> s.prods[s.items[i].id].price,
      product_brand_segment |-> s.prods[s.items[i].id].brand_segment]]

PickupInsertItemsSkipped(r) ==
  /\ req[r].pc = "cp_items"
  /\ req' = [req EXCEPT ![r] = LoopOrElse(@, @.items, TRUE, "cp_dec", "cp_dec")]
  /\ UNCHANGED <<store, sentCancelEmails, now>>

\* insert the item rows, then start decrementing stock item by item.
PickupInsertItems(r) ==
  /\ req[r].pc = "cp_items"
  /\ order_item' = order_item \o PickupItemsPayload(req[r])
  /\ req' = [req EXCEPT ![r] = LoopOrElse(@, @.items, TRUE, "cp_dec", "cp_dec")]
  /\ UNCHANGED <<product, order, user, nextOrderId, sentCancelEmails, now>>

\* itemsErr: the item insert failed; the handler goes on to its rollback.
PickupInsertItemsError(r) ==
  /\ req[r].pc = "cp_items"
  /\ req' = [req EXCEPT ![r].pc = "cp_rollback"]
  /\ UNCHANGED <<store, sentCancelEmails, now>>

OrderRowsKept(oid) == order

\* from("order").delete().eq("id", newOrder.id)
OrderRowsWithout(oid) == [o \in DOMAIN order \ {oid} |-> order[o]]

\* best-effort rollback: delete the order row just inserted, answer 500.
PickupRollback(r) ==
  /\ req[r].pc = "cp_rollback"
  /\ order' = OrderRowsWithout(req[r].oid)
  /\ req' = [req EXCEPT ![r] = Reply(@, 500)]
  /\ UNCHANGED <<product, order_item, user, nextOrderId, sentCancelEmails, now>>

\* the rollback delete failed too; the handler still answers 500.
PickupRollbackError(r) ==
  /\ req[r].pc = "cp_rollback"
  /\ req' = [req EXCEPT ![r] = [Reply(@, 500) EXCEPT !.rbErr = TRUE]]
  /\ UNCHANGED <<store, sentCancelEmails, now>>

CreatePickupOrder(r) ==
  \/ PickupHoldLookup(r)
  \/ PickupFetchProducts(r)
  \/ PickupInsertOrder(r)
  \/ PickupInsertItems(r)

\* ----------------------------------------------------------- createOrder
DiscountTenPercent(totalAmount, pointsUsed) ==
  IF pointsUsed \in {50, 100} THEN (totalAmount * 10) \div 100 ELSE 0

\* Money is kept in cents; 50 points buy 5 %, 100 points buy 10 %.
Discount(totalAmount, pointsUsed) ==
  IF pointsUsed = 100 THEN (totalAmount * 10) \div 100
  ELSE IF pointsUsed = 50 THEN (totalAmount * 5) \div 100
  ELSE 0

FinalTotal(a) ==
  LET shippingFee == IF a.isLocalPickup \/ a.isLocal THEN 0 ELSE a.fee
  IN Max(0, a.totalAmount - Discount(a.totalAmount, a.pointsUsed) + shippingFee)

StartCreateOrder(r, u, items, a) ==
  /\ Free(r)
  /\ HasRoom
  /\ LET s == [IdleReq EXCEPT !.kind = "createOrder", !.user = u, !.items = items, !.arg = a]
     IN req' = [req EXCEPT ![r] = IF items = <<>> THEN Reply(s, 400) ELSE [s EXCEPT !.pc = "co_user"]]
  /\ UNCHANGED <<store, sentCancelEmails, now>>

\* select the buyer's points, compute discount and final total.
CreateOrderLoadUser(r) ==
  /\ req[r].pc = "co_user"
  /\ req' = [req EXCEPT ![r].pc = "co_insert", ![r].n1 = user[req[r].user].points,
                        ![r].n2 = FinalTotal(req[r].arg)]
  /\ UNCHANGED <<store, sentCancelEmails, now>>

CreateOrderRow(s) ==
  [user_id |-> s.user, status |-> IF s.arg.status = "" THEN "Pending" ELSE s.arg.status,
   total_amount |-> s.n2, tracking_code |-> "Processing", points_used |-> s.arg.pointsUsed,
   shipping_info |-> ShippingInfo(s.arg.shipping_method, "", <<>>)]

CreateOrderInsert(r) ==
  /\ req[r].pc = "co_insert"
  /\ order' = order @@ (nextOrderId :> CreateOrderRow(req[r]))
  /\ nextOrderId' = nextOrderId + 1
  /\ req' = [req EXCEPT ![r].pc = "co_enrich", ![r].oid = nextOrderId, ![r].idx = 1, ![r].rows = <<>>]
  /\ UNCHANGED <<product, order_item, user, sentCancelEmails, now>>

\* per item: select the product's brand_segment and build the item row.
CreateOrderEnrich(r) ==
  /\ req[r].pc = "co_enrich"
  /\ LET s == req[r]
         it == s.items[s.idx]
         row == [order_id |-> s.oid, product_id |-> it.id, quantity |-> NumQty(it.quantity),
                 price |-> it.price, product_brand_segment |-> product[it.id].brand_segment]
     IN req' = [req EXCEPT ![r].rows = Append(@, row), ![r].idx = @ + 1,
                           ![r].pc = IF s.idx + 1 > Len(s.items) THEN "co_items" ELSE "co_enrich"]
  /\ UNCHANGED <<store, sentCancelEmails, now>>

CreateOrderInsertItems(r) ==
  /\ req[r].pc = "co_items"
  /\ order_item' = order_item \o req[r].rows
  /\ req' = [req EXCEPT ![r] = LoopOrElse([@ EXCEPT !.rows = <<>>], @.items, TRUE, "co_dec", "co_points")]
  /\ UNCHANGED <<product, order, user, nextOrderId, sentCancelEmails, now>>

\* orderItemError: the item insert failed; the handler attempts a rollback.
CreateOrderInsertItemsError(r) ==
  /\ req[r].pc = "co_items"
  /\ req' = [req EXCEPT ![r].pc = "co_rollback", ![r].rows = <<>>]
  /\ UNCHANGED <<store, sentCancelEmails, now>>

\* rollback: delete the order row just inserted, answer 500.
CreateOrderRollback(r) ==
  /\ req[r].pc = "co_rollback"
  /\ order' = OrderRowsWithout(req[r].oid)
  /\ req' = [req EXCEPT ![r] = Reply(@, 500)]
  /\ UNCHANGED <<product, order_item, user, nextOrderId, sentCancelEmails, now>>

\* the rollback delete failed too; the handler still answers 500.
CreateOrderRollbackError(r) ==
  /\ req[r].pc = "co_rollback"
  /\ req' = [req EXCEPT ![r] = [Reply(@, 500) EXCEPT !.rbErr = TRUE]]
  /\ UNCHANGED <<store, sentCancelEmails, now>>

NewPointsBalanceRoundedUp(userPoints, pointsUsed, finalTotal) ==
  userPoints - pointsUsed + ((finalTotal + 99) \div 100)

\* newPointsBalance = userPoints - (pointsUsed || 0) + Math.floor(finalTotal)
NewPointsBalance(userPoints, pointsUsed, finalTotal) == userPoints - pointsUsed + (finalTotal \div 100)

\* update the buyer's points, queue both emails, answer 201.
CreateOrderPoints(r) ==
  /\ req[r].pc = "co_points"
  /\ user' = [user EXCEPT ![req[r].user].points = NewPointsBalance(req[r].n1, req[r].arg.pointsUsed, req[r].n2)]
  /\ req' = [req EXCEPT ![r] = [Reply(@, 201) EXCEPT !.mails = 2]]
  /\ UNCHANGED <<product, order, order_item, nextOrderId, sentCancelEmails, now>>

CreateOrder(r) ==
  \/ CreateOrderLoadUser(r)
  \/ CreateOrderInsert(r)
  \/ CreateOrderEnrich(r)
  \/ CreateOrderInsertItems(r)
  \/ CreateOrderPoints(r)

\* ----------------------------------------------------------- cancelOrder
Quantities == [p \in Products |-> product[p].quantity]

StartCancelOrder(r, u, admin, oid) ==
  /\ Free(r)
  /\ req' = [req EXCEPT ![r] = [IdleReq EXCEPT !.kind = "cancelOrder", !.pc = "ca_load",
                                               !.user = u, !.admin = admin, !.oid = oid, !.q0 = Quantities]]
  /\ UNCHANGED <<store, sentCancelEmails, now>>

\* req.params.orderId under a route whose parameter has another name.
UndefinedParam == 0

\* PATCH /admin/orders/:id/cancel: the route binds the order id to params.id,
\* the handler reads params.orderId.
StartAdminCancel(r, u, id) ==
  /\ Free(r)
  /\ req' = [req EXCEPT ![r] = [IdleReq EXCEPT !.kind = "cancelOrder", !.pc = "ca_load",
                                               !.user = u, !.admin = TRUE, !.oid = UndefinedParam,
                                               !.arg = [id |-> id], !.q0 = Quantities]]
  /\ UNCHANGED <<store, sentCancelEmails, now>>

MayCancelAnyone(ownerId, userId, isAdmin) == TRUE

\* the negation of: order.user_id !== userId && req.user.role !== "admin"
MayCancel(ownerId, userId, isAdmin) == ownerId = userId \/ isAdmin

CancelableAnyStatus(status) == TRUE

\* the negation of: order.status !== "Pending"
Cancelable(status) == status = "Pending"

\* select the order; existence, ownership and status checks.
CancelLoad(r) ==
  /\ req[r].pc = "ca_load"
  /\ LET s == req[r]
     IN req' = [req EXCEPT ![r] =
          IF s.oid \notin DOMAIN order THEN Reply(s, 500)
          ELSE IF ~MayCancel(order[s.oid].user_id, s.user, s.admin) THEN Reply(s, 403)
          ELSE IF ~Cancelable(order[s.oid].status) THEN Reply(s, 400)
          ELSE [s EXCEPT !.pc = "ca_items"]]
  /\ UNCHANGED <<store, sentCancelEmails, now>>

\* select the order's item rows, then restock row by row.
CancelFetchItems(r) ==
  /\ req[r].pc = "ca_items"
  /\ LET rows == ItemsOf(req[r].oid)
     IN req' = [req EXCEPT ![r] = LoopOrElse([@ EXCEPT !.rows = rows], rows, FALSE, "ca_restock", "ca_update")]
  /\ UNCHANGED <<store, sentCancelEmails, now>>

\* update status = Canceled; cancellation emails behind the in-memory guard.
CancelUpdate(r) ==
  /\ req[r].pc = "ca_update"
  /\ LET oid == req[r].oid
     IN /\ order' = IF oid \in DOMAIN order THEN [order EXCEPT ![oid].status = "Canceled"] ELSE order
        /\ sentCancelEmails' = sentCancelEmails \cup {oid}
        /\ req' = [req EXCEPT ![r] = [Reply(@, 200) EXCEPT !.mails = IF oid \in sentCancelEmails THEN 0 ELSE 2]]
  /\ UNCHANGED <<product, order_item, user, nextOrderId, now>>

\* setTimeout(() => sentCancelEmails.delete(orderId), CANCEL_EMAIL_SENT_TTL_MS)
CancelEmailTimer(oid) ==
  /\ oid \in sentCancelEmails
  /\ sentCancelEmails' = sentCancelEmails \ {oid}
  /\ UNCHANGED <<store, now, req>>

CancelOrder(r) ==
  \/ CancelLoad(r)
  \/ CancelFetchItems(r)
  \/ CancelUpdate(r)

\* ----------------------------------------------------- markOrderPickedUp
StartMarkOrderPickedUp(r, oid) ==
  /\ Free(r)
  /\ req' = [req EXCEPT ![r] = [IdleReq EXCEPT !.kind = "markOrderPickedUp", !.pc = "pu_update", !.oid = oid]]
  /\ UNCHANGED <<store, sentCancelEmails, now>>

\* update status = picked_up where id = id; no row updated answers 404.
MarkPickedUpUpdate(r) ==
  /\ req[r].pc = "pu_update"
  /\ LET s == req[r]
     IN IF s.oid \in DOMAIN order
          THEN /\ order' = [order EXCEPT ![s.oid].status = "picked_up"]
               /\ req' = [req EXCEPT ![r] = Reply(s, 200)]
          ELSE /\ order' = order
               /\ req' = [req EXCEPT ![r] = Reply(s, 404)]
  /\ UNCHANGED <<product, order_item, user, nextOrderId, sentCancelEmails, now>>

\* ------------------------------------------------------------ deleteOrder
StartDeleteOrder(r, oid) ==
  /\ Free(r)
  /\ req' = [req EXCEPT ![r] = [IdleReq EXCEPT !.kind = "deleteOrder", !.pc = "do_load", !.oid = oid]]
  /\ UNCHANGED <<store, sentCancelEmails, now>>

\* select the order; a missing row makes .single() fail and the handler throw.
DeleteLoad(r) ==
  /\ req[r].pc = "do_load"
  /\ req' = [req EXCEPT ![r] = IF @.oid \in DOMAIN order THEN [@ EXCEPT !.pc = "do_items"] ELSE Reply(@, 500)]
  /\ UNCHANGED <<store, sentCancelEmails, now>>

\* from("order_item").delete().eq(col, val): the rows left. A column the rows
\* do not have matches nothing; the error comes back in the result.
ItemRowsWithout(col, val) ==
  SelectSeq(order_item, LAMBDA it : ~(col \in DOMAIN it /\ it[col] = val))

\* delete the item rows where orderId = orderId; the result is not looked at.
DeleteItems(r) ==
  /\ req[r].pc = "do_items"
  /\ order_item' = ItemRowsWithout("orderId", req[r].oid)
  /\ req' = [req EXCEPT ![r].pc = "do_order"]
  /\ UNCHANGED <<product, order, user, nextOrderId, sentCancelEmails, now>>

\* What the database does with item rows that refer to a deleted order; the
\* schema of order_item is not part of the repository.
ForeignKeyRules == {"cascade", "restrict", "none"}

\* delete the order row; the result is not looked at; answer 200.
DeleteOrderRow(r, fk) ==
  /\ req[r].pc = "do_order"
  /\ LET oid == req[r].oid
         refused == fk = "restrict" /\ ItemsOf(oid) # <<>>
     IN /\ order' = IF oid \in DOMAIN order /\ ~refused THEN OrderRowsWithout(oid) ELSE order
        /\ order_item' = IF fk = "cascade" THEN ItemRowsWithout("order_id", oid) ELSE order_item
  /\ req' = [req EXCEPT ![r] = Reply(@, 200)]
  /\ UNCHANGED <<product, user, nextOrderId, sentCancelEmails, now>>

DeleteOrder(r) ==
  \/ DeleteLoad(r)
  \/ DeleteItems(r)
  \/ \E fk \in ForeignKeyRules : DeleteOrderRow(r, fk)

\* ------------------------------------------------------ updateOrderStatus
VALID_STATUSES == {"Pending", "Shipped", "Delivered", "Canceled"}

\* status === "Shipped" && trackingCode
ShippedWithTracking(a) == a.status = "Shipped" /\ a.trackingCode # ""

StartUpdateOrderStatus(r, oid, status, trackingCode) ==
  /\ Free(r)
  /\ LET s == [IdleReq EXCEPT !.kind = "updateOrderStatus", !.oid = oid,
                              !.arg = [status |-> status, trackingCode |-> trackingCode]]
     IN req' = [req EXCEPT ![r] = IF status \notin VALID_STATUSES THEN Reply(s, 400)
                                  ELSE [s EXCEPT !.pc = "us_load"]]
  /\ UNCHANGED <<store, sentCancelEmails, now>>

\* select the order; a missing row makes .single() fail and the handler throw.
StatusLoad(r) ==
  /\ req[r].pc = "us_load"
  /\ req' = [req EXCEPT ![r] = IF @.oid \in DOMAIN order THEN [@ EXCEPT !.pc = "us_update"] ELSE Reply(@, 500)]
  /\ UNCHANGED <<store, sentCancelEmails, now>>

\* updateData
StatusUpdateData(row, a) ==
  IF ShippedWithTracking(a) THEN [row EXCEPT !.status = a.status, !.tracking_code = a.trackingCode]
  ELSE [row EXCEPT !.status = a.status]

StatusUpdateRestocking(r) ==
  /\ req[r].pc = "us_update"
  /\ LET s == req[r]
     IN IF s.oid \notin DOMAIN order
          THEN /\ req' = [req EXCEPT ![r] = Reply(s, 500)]
               /\ UNCHANGED <<order, product>>
          ELSE /\ order' = [order EXCEPT ![s.oid] = StatusUpdateData(@, s.arg)]
               /\ product' = [p \in Products |-> [product[p] EXCEPT !.quantity =
                                IF s.arg.status = "Canceled" THEN @ + SumQty(ItemsOf(s.oid), p) ELSE @]]
               /\ req' = [req EXCEPT ![r] =
                     IF ShippedWithTracking(s.arg) THEN [s EXCEPT !.pc = "us_ship1"]
                     ELSE IF s.arg.status = "Canceled" THEN [s EXCEPT !.pc = "us_cmail", !.mails = 1]
                     ELSE [Reply(s, 200) EXCEPT !.mails = 1]]
  /\ UNCHANGED <<order_item, user, nextOrderId, sentCancelEmails, now>>

\* update the order row; then either await the shipping notification or
\* send the generic admin mail without awaiting it.
StatusUpdate(r) ==
  /\ req[r].pc = "us_update"
  /\ LET s == req[r]
     IN IF s.oid \notin DOMAIN order
          THEN /\ req' = [req EXCEPT ![r] = Reply(s, 500)]
               /\ UNCHANGED order
          ELSE /\ order' = [order EXCEPT ![s.oid] = StatusUpdateData(@, s.arg)]
               /\ req' = [req EXCEPT ![r] =
                     IF ShippedWithTracking(s.arg) THEN [s EXCEPT !.pc = "us_ship1"]
                     ELSE IF s.arg.status = "Canceled" THEN [s EXCEPT !.pc = "us_cmail", !.mails = 1]
                     ELSE [Reply(s, 200) EXCEPT !.mails = 1]]
  /\ UNCHANGED <<product, order_item, user, nextOrderId, sentCancelEmails, now>>

\* One awaited send inside try/catch has settled; the handler goes on to pc.
AfterAwaitedMail(s, ok, pc) ==
  LET t == [s EXCEPT !.mails = @ + 1, !.mdone = @ + 1, !.mfail = IF ok THEN @ ELSE @ + 1]
  IN IF pc = "done"
       THEN [Reply(t, 200) EXCEPT !.mails = t.mails, !.mdone = t.mdone, !.mfail = t.mfail]
       ELSE [t EXCEPT !.pc = pc]

\* await sendShippingNotification(orderId), called twice for a shipped order:
\* an order read and a send; a failure of either is caught and logged.
StatusShipNotify(r, ok) ==
  /\ req[r].pc \in {"us_ship1", "us_ship2"}
  /\ req' = [req EXCEPT ![r] = AfterAwaitedMail(@, ok, IF @.pc = "us_ship1" THEN "us_ship2" ELSE "done")]
  /\ UNCHANGED <<store, sentCancelEmails, now>>

StatusCancelMailThrows(r, ok) ==
  /\ req[r].pc = "us_cmail"
  /\ req' = [req EXCEPT ![r] = IF ok THEN AfterAwaitedMail(@, ok, "us_amail")
                               ELSE [Reply(@, 500) EXCEPT !.mfail = 1, !.mails = 2, !.mdone = 1]]
  /\ UNCHANGED <<store, sentCancelEmails, now>>

\* status Canceled: await the customer's cancellation mail, no guard consulted.
StatusCancelMail(r, ok) ==
  /\ req[r].pc = "us_cmail"
  /\ req' = [req EXCEPT ![r] = AfterAwaitedMail(@, ok, "us_amail")]
  /\ UNCHANGED <<store, sentCancelEmails, now>>

\* status Canceled: await the admin's cancellation mail, then res.json.
StatusAdminCancelMail(r, ok) ==
  /\ req[r].pc = "us_amail"
  /\ req' = [req EXCEPT ![r] = AfterAwaitedMail(@, ok, "done")]
  /\ UNCHANGED <<store, sentCancelEmails, now>>

\* A send that was not awaited settles; its then/catch handlers only log.
MailSettle(r, ok) ==
  /\ req[r].mdone < req[r].mails
  /\ req' = [req EXCEPT ![r].mdone = @ + 1, ![r].mfail = IF ok THEN @ ELSE @ + 1]
  /\ UNCHANGED <<store, sentCancelEmails, now>>

UpdateOrderStatus(r) ==
  \/ StatusLoad(r)
  \/ StatusUpdate(r)
  \/ \E ok \in BOOLEAN : StatusShipNotify(r, ok)
  \/ \E ok \in BOOLEAN : StatusCancelMail(r, ok)
  \/ \E ok \in BOOLEAN : StatusAdminCancelMail(r, ok)

\* ---------------------------------------------- cancelExpiredPickupHolds
RECURSIVE Ascending(_)
Ascending(S) ==
  IF S = {} THEN <<>>
  ELSE LET m == CHOOSE x \in S : \A y \in S : x <= y
       IN <<m>> \o Ascending(S \ {m})

\* local_pickup orders in status awaiting_pickup, oldest first.
HoldCandidates ==
  LET ids == {o \in DOMAIN order : /\ order[o].shipping_info.shipping_method = "local_pickup"
                                   /\ order[o].status = "awaiting_pickup"}
      asc == Ascending(ids)
  IN [i \in DOMAIN asc |-> [id |-> asc[i], status |-> order[asc[i]].status,
                            shipping_info |-> order[asc[i]].shipping_info]]

StartCancelExpired(r) ==
  /\ Free(r)
  /\ req' = [req EXCEPT ![r] = [IdleReq EXCEPT !.kind = "cancelExpired", !.pc = "ce_fetch",
                                               !.nowIso = ToISO(now), !.q0 = Quantities]]
  /\ UNCHANGED <<store, sentCancelEmails, now>>

ExpiryFetch(r) ==
  /\ req[r].pc = "ce_fetch"
  /\ req' = [req EXCEPT ![r] = ExpiryAdvance([@ EXCEPT !.holds = HoldCandidates], 1)]
  /\ UNCHANGED <<store, sentCancelEmails, now>>

\* select the hold's item rows, then restock row by row.
ExpiryFetchItems(r) ==
  /\ req[r].pc = "ce_items"
  /\ LET rows == ItemsOf(req[r].oid)
     IN req' = [req EXCEPT ![r] = LoopOrElse([@ EXCEPT !.rows = rows], rows, FALSE, "ce_restock", "ce_update")]
  /\ UNCHANGED <<store, sentCancelEmails, now>>

\* The shipping_info written back: the copy read by the candidate query,
\* with pickup.expired_at stamped.
ExpiredInfo(s) == [s.holds[s.hidx].shipping_info EXCEPT !.expired_at = s.nowIso]

\* update status = canceled and shipping_info; go on with the next hold.
ExpiryUpdate(r) ==
  /\ req[r].pc = "ce_update"
  /\ LET s == req[r]
     IN /\ order' = IF s.oid \in DOMAIN order
                      THEN [order EXCEPT ![s.oid].status = "canceled", ![s.oid].shipping_info = ExpiredInfo(s)]
                      ELSE order
        /\ req' = [req EXCEPT ![r] = ExpiryAdvance([s EXCEPT !.n1 = @ + 1, !.rows = <<>>], s.hidx + 1)]
  /\ UNCHANGED <<product, order_item, user, nextOrderId, sentCancelEmails, now>>

CancelExpiredPickupHolds(r) ==
  \/ ExpiryFetch(r)
  \/ ExpiryFetchItems(r)
  \/ ExpiryUpdate(r)

\* --------------------------------------------------------- markOrderPaid
StartMarkOrderPaid(r, oid) ==
  /\ Free(r)
  /\ req' = [req EXCEPT ![r] = [IdleReq EXCEPT !.kind = "markOrderPaid", !.pc = "mp_read", !.oid = oid]]
  /\ UNCHANGED <<store, sentCancelEmails, now>>

\* select id, shipping_info
MarkPaidRead(r) ==
  /\ req[r].pc = "mp_read"
  /\ LET s == req[r]
     IN req' = [req EXCEPT ![r] =
          IF s.oid \notin DOMAIN order THEN Reply(s, 404)
          ELSE [s EXCEPT !.pc = "mp_write", !.info = order[s.oid].shipping_info]]
  /\ UNCHANGED <<store, sentCancelEmails, now>>

PaidInfo(info) == [info EXCEPT !.payment_status = "paid"]

\* update shipping_info with the copy read before, payment_status = paid
MarkPaidWrite(r) ==
  /\ req[r].pc = "mp_write"
  /\ LET s == req[r]
     IN IF s.oid \in DOMAIN order
          THEN /\ order' = [order EXCEPT ![s.oid].shipping_info = PaidInfo(s.info)]
               /\ req' = [req EXCEPT ![r] = Reply(s, 200)]
          ELSE /\ order' = order
               /\ req' = [req EXCEPT ![r] = Reply(s, 500)]
  /\ UNCHANGED <<product, order_item, user, nextOrderId, sentCancelEmails, now>>

MarkOrderPaid(r) ==
  \/ MarkPaidRead(r)
  \/ MarkPaidWrite(r)

\* --------------------------------------------------------- updateProduct
ALLOWED_BRANDS == {"nails", "toys", "accessories"}

\* body: price and quantity are <<>> when absent, <<v>> when given;
\* brandSegment and categorySlug are "" when absent.
StartUpdateProduct(r, admin, p, body) ==
  /\ Free(r)
  /\ LET s == [IdleReq EXCEPT !.kind = "updateProduct", !.admin = admin, !.pid = p, !.arg = body]
     IN req' = [req EXCEPT ![r] =
          IF ~admin THEN Reply(s, 403)
          ELSE IF body.brandSegment = "" \/ body.categorySlug = "" THEN [s EXCEPT !.pc = "up_existing"]
          ELSE IF body.brandSegment \notin ALLOWED_BRANDS THEN Reply(s, 400)
          ELSE [s EXCEPT !.pc = "up_update", !.info = body.brandSegment]]
  /\ UNCHANGED <<store, sentCancelEmails, now>>

\* select brand_segment, category_slug of the existing row
UpdateProductExisting(r) ==
  /\ req[r].pc = "up_existing"
  /\ LET s == req[r]
         eff == IF s.arg.brandSegment = "" THEN product[s.pid].brand_segment ELSE s.arg.brandSegment
     IN req' = [req EXCEPT ![r] =
          IF eff \notin ALLOWED_BRANDS THEN Reply(s, 400)
          ELSE [s EXCEPT !.pc = "up_update", !.info = eff]]
  /\ UNCHANGED <<store, sentCancelEmails, now>>

UpdatedProductRow(row, body, brand) ==
  [quantity |-> IF body.quantity = <<>> THEN row.quantity ELSE body.quantity[1],
   price |-> IF body.price = <<>> THEN row.price ELSE body.price[1],
   brand_segment |-> brand]

UpdateProductWriteCascading(r) ==
  /\ req[r].pc = "up_update"
  /\ product' = [product EXCEPT ![req[r].pid] = UpdatedProductRow(@, req[r].arg, req[r].info)]
  /\ order_item' = [i \in DOMAIN order_item |->
                      IF order_item[i].product_id = req[r].pid
                        THEN [order_item[i] EXCEPT !.price = product'[req[r].pid].price,
                                                   !.product_brand_segment = product'[req[r].pid].brand_segment]
                        ELSE order_item[i]]
  /\ req' = [req EXCEPT ![r] = Reply(@, 200)]
  /\ UNCHANGED <<order, user, nextOrderId, sentCancelEmails, now>>

\* update the product row; order and order_item are not touched.
UpdateProductWrite(r) ==
  /\ req[r].pc = "up_update"
  /\ product' = [product EXCEPT ![req[r].pid] = UpdatedProductRow(@, req[r].arg, req[r].info)]
  /\ req' = [req EXCEPT ![r] = Reply(@, 200)]
  /\ UNCHANGED <<order, order_item, user, nextOrderId, sentCancelEmails, now>>

UpdateProduct(r) ==
  \/ UpdateProductExisting(r)
  \/ UpdateProductWrite(r)

\* ------------------------------------------------------------- the clock
Tick ==
  /\ now < MaxTime
  /\ now' = now + TickHours
  /\ UNCHANGED <<store, sentCancelEmails, req>>

\* ------------------------------------------------------------------ Init
InitProduct ==
  /\ product \in [Products -> [quantity : 0..MaxStock, price : {200}, brand_segment : {"nails"}]]
  /\ \A p \in Products \ {"P1"} : product[p].quantity = MaxStock

Init ==
  /\ InitProduct
  /\ order = <<>>
  /\ order_item = <<>>
  /\ user = [u \in Users |-> [points |-> 100]]
  /\ nextOrderId = 1
  /\ sentCancelEmails = {}
  /\ now = 0
  /\ req = [r \in Slots |-> IdleReq]

\* ---------------------------------------------- ledger-only specification
QtyInputs == -1..(MaxQty + 1)

NextLedger ==
  \E r \in Slots :
    \/ \E q \in QtyInputs : StartDecrement(r, "P1", q)
    \/ \E q \in QtyInputs : StartIncrement(r, "P1", q)
    \/ DecrementRpc(r)
    \/ DecrementRpcMissing(r)
    \/ DecrementSelect(r)
    \/ DecrementUpdate(r)
    \/ IncrementSelect(r)
    \/ IncrementUpdate(r)
    \/ LedgerStoreError(r)

SpecLedger == Init /\ [][NextLedger]_vars

\* C1: after any sequence of decrementProductQuantity and
\* incrementProductQuantity calls, overlapping ones and over-decrements
\* included, no product quantity is negative (decrements clamp at zero).
QuantityNeverNegative == \A p \in Products : product[p].quantity >= 0

\* C1 witness: a decrement larger than the stock on hand has completed on
\* the fallback path and the product sits at zero.
OverDecrementClamped ==
  \E r \in Slots :
    /\ req[r].kind = "decrement" /\ req[r].pc = "done" /\ req[r].n1 = 1
    /\ req[r].qty > req[r].cur /\ req[r].cur > 0
    /\ product[req[r].pid].quantity = 0


\* ------------------------------------------------- request input domains
MaxSeqOrders == 1

PickupItemSeqs ==
  {<<>>}
  \cup {<<[id |-> "P1", quantity |-> q]>> : q \in 1..MaxQty}
  \cup {<<[id |-> "P1", quantity |-> q], [id |-> p, quantity |-> 1]>> : q \in 1..MaxQty, p \in Products}

OrderItemSeqs ==
  {<<[id |-> "P1", quantity |-> q, price |-> product["P1"].price]>> : q \in 1..MaxQty}
  \cup {<<[id |-> "P1", quantity |-> q, price |-> product["P1"].price],
          [id |-> p, quantity |-> 1, price |-> product[p].price]>> : q \in 1..MaxQty, p \in Products}

OrderArg(status, method, fee, pointsUsed) ==
  [totalAmount |-> 2000, pointsUsed |-> pointsUsed, status |-> status, shipping_method |-> method,
   fee |-> fee, isLocalPickup |-> method = "local_pickup", isLocal |-> FALSE]

OrderArgs == {OrderArg("", "standard", 500, 0), OrderArg("awaiting_pickup", "local_pickup", 0, 0)}

ProductBodies ==
  [price : {<<>>, <<300>>}, quantity : {<<>>}, brandSegment : {"", "toys", "bogus"},
   categorySlug : {""}]

SeqOrderIds == 1..MaxSeqOrders

\* ------------------------------------ one request at a time, store healthy
SeqRoom == nextOrderId <= MaxSeqOrders

NextSeq ==
  \/ \E items \in PickupItemSeqs : SeqRoom /\ StartCreatePickupOrder(1, "u1", items)
  \/ PickupHoldLookup(1)
  \/ PickupFetchProducts(1)
  \/ PickupInsertOrder(1)
  \/ PickupInsertItems(1)
  \/ \E items \in OrderItemSeqs, a \in OrderArgs : SeqRoom /\ StartCreateOrder(1, "u1", items, a)
  \/ CreateOrderLoadUser(1)
  \/ CreateOrderInsert(1)
  \/ CreateOrderEnrich(1)
  \/ CreateOrderInsertItems(1)
  \/ CreateOrderPoints(1)
  \/ \E oid \in SeqOrderIds : StartCancelOrder(1, "u1", FALSE, oid)
  \/ CancelLoad(1)
  \/ CancelFetchItems(1)
  \/ CancelUpdate(1)
  \/ StartCancelExpired(1)
  \/ ExpiryFetch(1)
  \/ ExpiryFetchItems(1)
  \/ ExpiryUpdate(1)
  \/ \E oid \in SeqOrderIds : StartMarkOrderPaid(1, oid)
  \/ MarkPaidRead(1)
  \/ MarkPaidWrite(1)
  \/ DecrementRpc(1)
  \/ DecrementRpcMissing(1)
  \/ DecrementSelect(1)
  \/ DecrementUpdate(1)
  \/ IncrementSelect(1)
  \/ IncrementUpdate(1)
  \/ Tick

SpecSeq == Init /\ [][NextSeq]_vars


\* ------------------------------------------------------ reading the state
\* The hour count a rendered timestamp stands for.
FromISO(iso) == iso[1] * 100 + iso[2] * 10 + iso[3]

PickupCreated(o) == order[o].tracking_code = "Pickup"

RECURSIVE RestockedSoFar(_, _, _)
\* Quantity of product p on the item rows of the holds a run has dealt with
\* up to and including hold i of its candidate list.
RestockedSoFar(s, i, p) ==
  IF i = 0 THEN 0
  ELSE (IF HoldQualifies(s.holds[i], s.nowIso) THEN SumQty(ItemsOf(s.holds[i].id), p) ELSE 0)
       + RestockedSoFar(s, i - 1, p)

Stepped(r, pc) == req[r].pc = pc /\ req'[r].pc # pc

\* Slot r takes a step of a cancelExpiredPickupHolds run.
ExpiryStep(r) == req[r].kind = "cancelExpired" /\ req[r].pc # "done" /\ req'[r] # req[r]

\* C2: cancelOrder on a Pending order restocks every item row once, by the
\* row's quantity, and leaves the order Canceled; an expiry run afterwards
\* never rewrites a Canceled order, restocks only on behalf of holds that
\* are awaiting_pickup, and leaves all stock as it was when it cancels nothing.
CancelRestocksExactly ==
  [][\A r \in Slots :
       /\ Stepped(r, "ca_update") =>
            /\ order[req[r].oid].status = "Pending"
            /\ order'[req[r].oid].status = "Canceled"
            /\ req[r].rows = ItemsOf(req[r].oid)
            /\ req'[r].n1 = Len(req[r].rows)
            /\ \A p \in Products : product'[p].quantity = req[r].q0[p] + SumQty(req[r].rows, p)
       /\ ExpiryStep(r) =>
            /\ \A o \in DOMAIN order : order[o].status = "Canceled" => order'[o] = order[o]
            /\ product' # product => order[req[r].oid].status = "awaiting_pickup"
            /\ (req'[r].pc = "done" /\ req'[r].n1 = 0) => Quantities' = req[r].q0]_vars

\* C2 witness: an order with items was canceled by cancelOrder and an
\* expiry run has since completed.
CanceledThenExpiryRan ==
  \E r \in Slots, o \in DOMAIN order :
    /\ req[r].kind = "cancelExpired" /\ req[r].pc = "done"
    /\ order[o].status = "Canceled" /\ ItemsOf(o) # <<>>

\* C5: a pickup request over distinct products in which some item asks for
\* more than the stock just read is answered 409 with the first such
\* product and its available quantity, and writes nothing.
PickupRejectsShortStock ==
  [][\A r \in Slots :
       LET items == req[r].items
           short == {i \in DOMAIN items : product[items[i].id].quantity < NumQty(items[i].quantity)}
       IN (Stepped(r, "cp_products") /\ Cardinality(ItemIds(items)) = Len(items) /\ short # {}) =>
            /\ req'[r].pc = "done" /\ req'[r].resp = 409 /\ req'[r].oid = 0 /\ req'[r].mails = 0
            /\ \E i \in short : /\ req'[r].errPid = items[i].id
                                /\ req'[r].n1 = product[items[i].id].quantity
                                /\ \A j \in short : i <= j
            /\ UNCHANGED store]_vars

\* C5 witness: a two-item request was refused with 409 for one product
\* while its other item was in stock; there is still no order.
ShortStockRefused ==
  \E r \in Slots :
    /\ req[r].kind = "createPickupOrder" /\ req[r].pc = "done" /\ req[r].resp = 409
    /\ Len(req[r].items) = 2
    /\ \E i \in 1..2 : /\ req[r].items[i].id # req[r].errPid
                       /\ product[req[r].items[i].id].quantity >= req[r].items[i].quantity
    /\ order = <<>> /\ order_item = <<>>

\* A step of an expiry run that touches hold o: restock on its behalf or
\* rewrite its row.
ExpiryTouches(r, o) ==
  /\ ExpiryStep(r)
  /\ req[r].oid = o
  /\ product' # product \/ order' # order

\* C6 as stated: an expiry run changes a hold only if the hold's expiry is
\* strictly earlier than the run's current time.
ExpiryOnlyStrictlyPast ==
  [][\A r \in Slots, o \in DOMAIN order :
       ExpiryTouches(r, o) =>
         /\ order[o].shipping_info.reservation_expires_at # <<>>
         /\ FromISO(order[o].shipping_info.reservation_expires_at) < FromISO(req[r].nowIso)]_vars

\* C6 amended: an expiry run changes a hold only if the hold's expiry is
\* not later than the run's current time; a hold whose expiry lies in the
\* future or is absent keeps its status, metadata and stock.
ExpiryOnlyWhenDue ==
  [][\A r \in Slots, o \in DOMAIN order :
       ExpiryTouches(r, o) =>
         /\ order[o].shipping_info.reservation_expires_at # <<>>
         /\ FromISO(order[o].shipping_info.reservation_expires_at) <= FromISO(req[r].nowIso)]_vars

\* C6 witness: a hold was canceled by a run whose current time equals the
\* hold's expiry.
CanceledAtExpiryInstant ==
  \E o \in DOMAIN order :
    /\ order[o].status = "canceled"
    /\ order[o].shipping_info.expired_at = order[o].shipping_info.reservation_expires_at

\* C9: a pickup hold expires 48 hours after the time the request took; a
\* run before that leaves the hold awaiting pickup and unchanged; the run
\* that deals with it when due adds each item row's quantity to its
\* product, sets status canceled and stamps expired_at.
HoldExpiresAfterWindow ==
  [][\A r \in Slots :
       /\ Stepped(r, "cp_insert") =>
            order'[req'[r].oid].shipping_info.reservation_expires_at = ToISO(req[r].t + HoldHours)
       /\ Stepped(r, "ce_update") =>
            /\ order'[req[r].oid].status = "canceled"
            /\ order'[req[r].oid].shipping_info.expired_at = req[r].nowIso
            /\ \A p \in Products :
                 product'[p].quantity = req[r].q0[p] + RestockedSoFar(req[r], req[r].hidx, p)
       /\ ExpiryStep(r) =>
            \A o \in DOMAIN order :
              (/\ PickupCreated(o)
               /\ order[o].status = "awaiting_pickup"
               /\ FromISO(req[r].nowIso) < FromISO(order[o].shipping_info.reservation_expires_at))
              => order'[o] = order[o] /\ req'[r].oid # o
       /\ (/\ Stepped(r, "ce_fetch")
           /\ \A o \in DOMAIN order :
                order[o].status = "awaiting_pickup" =>
                  /\ PickupCreated(o)
                  /\ FromISO(req[r].nowIso) < FromISO(order[o].shipping_info.reservation_expires_at))
          => req'[r].pc = "done" /\ req'[r].n1 = 0 /\ req'[r].n2 = 0 /\ UNCHANGED store]_vars

\* C9 witness: a hold made by createPickupOrder, with items, was canceled
\* by a run later than its expiry.
HoldCanceledAfterWindow ==
  \E o \in DOMAIN order :
    /\ PickupCreated(o) /\ order[o].status = "canceled"
    /\ ItemsOf(o) # <<>>
    /\ StrGreater(order[o].shipping_info.expired_at, order[o].shipping_info.reservation_expires_at)


\* ------------------------------ product edits between sequential requests
\* Every product fully stocked, nothing ordered yet.
InitFullStock ==
  /\ product = [p \in Products |-> [quantity |-> MaxStock, price |-> 200, brand_segment |-> "nails"]]
  /\ order = <<>>
  /\ order_item = <<>>
  /\ user = [u \in Users |-> [points |-> 100]]
  /\ nextOrderId = 1
  /\ sentCancelEmails = {}
  /\ now = 0
  /\ req = [r \in Slots |-> IdleReq]

NextSnapshot ==
  \/ \E items \in PickupItemSeqs : SeqRoom /\ StartCreatePickupOrder(1, "u1", items)
  \/ PickupHoldLookup(1)
  \/ PickupFetchProducts(1)
  \/ PickupInsertOrder(1)
  \/ PickupInsertItems(1)
  \/ \E items \in OrderItemSeqs, a \in OrderArgs : SeqRoom /\ StartCreateOrder(1, "u1", items, a)
  \/ CreateOrderLoadUser(1)
  \/ CreateOrderInsert(1)
  \/ CreateOrderEnrich(1)
  \/ CreateOrderInsertItems(1)
  \/ CreateOrderPoints(1)
  \/ \E admin \in BOOLEAN, body \in ProductBodies : StartUpdateProduct(1, admin, "P1", body)
  \/ UpdateProductExisting(1)
  \/ UpdateProductWrite(1)
  \/ \E oid \in SeqOrderIds : StartCancelOrder(1, "u1", FALSE, oid)
  \/ CancelLoad(1)
  \/ CancelFetchItems(1)
  \/ CancelUpdate(1)
  \/ \E oid \in SeqOrderIds : StartMarkOrderPaid(1, oid)
  \/ MarkPaidRead(1)
  \/ MarkPaidWrite(1)
  \/ DecrementRpc(1)
  \/ DecrementRpcMissing(1)
  \/ DecrementSelect(1)
  \/ DecrementUpdate(1)
  \/ IncrementSelect(1)
  \/ IncrementUpdate(1)

SpecSnapshot == InitFullStock /\ [][NextSnapshot]_vars

RECURSIVE SumAmount(_)
SumAmount(rows) == IF rows = <<>> THEN 0 ELSE Head(rows).price * Head(rows).quantity + SumAmount(Tail(rows))

\* C10: no step changes the price or brand segment of an existing item row
\* or the total of an existing order, whatever happens to the product; a
\* pickup order's total stays the sum over its item snapshots once they are
\* inserted.
SnapshotsImmutable ==
  [][/\ \A o \in DOMAIN order :
          /\ o \in DOMAIN order'
          /\ order'[o].total_amount = order[o].total_amount
          /\ (PickupCreated(o) /\ ItemsOf(o) # <<>>) => order[o].total_amount = SumAmount(ItemsOf(o))
     /\ \A i \in DOMAIN order_item :
          /\ i \in DOMAIN order_item'
          /\ order_item'[i].order_id = order_item[i].order_id
          /\ order_item'[i].product_id = order_item[i].product_id
          /\ order_item'[i].price = order_item[i].price
          /\ order_item'[i].product_brand_segment = order_item[i].product_brand_segment]_vars

\* C10 witness: updateProduct has changed price and brand segment of a
\* product that an existing order item still records with the old values.
ProductChangedUnderOrder ==
  \E r \in Slots, i \in DOMAIN order_item :
    /\ req[r].kind = "updateProduct" /\ req[r].pc = "done" /\ req[r].resp = 200
    /\ order_item[i].price # product[order_item[i].product_id].price
    /\ order_item[i].product_brand_segment # product[order_item[i].product_id].brand_segment

\* ------------------------------------- overlapping createPickupOrder calls
NextPickupRace ==
  \E r \in Slots :
    \/ StartCreatePickupOrder(r, "u1", <<[id |-> "P1", quantity |-> 1]>>)
    \/ PickupHoldLookup(r)
    \/ PickupFetchProducts(r)
    \/ PickupInsertOrder(r)
    \/ PickupInsertItems(r)
    \/ DecrementRpc(r)
    \/ DecrementRpcMissing(r)
    \/ DecrementSelect(r)
    \/ DecrementUpdate(r)

SpecPickupRace == InitFullStock /\ [][NextPickupRace]_vars

\* C3: in every reachable state a user has at most 2 local-pickup orders
\* whose status is awaiting_pickup or pending.
AtMostTwoOpenHolds == \A u \in Users : Cardinality(OpenHolds(u)) <= 2

\* C4: when the hold lookup finds 2 or more open holds of the caller, the
\* request ends with 429 and has inserted no order, no item row, changed no
\* stock and sent no email.
HoldCapRejects ==
  [][\A r \in Slots :
       (Stepped(r, "cp_holds") /\ Cardinality(OpenHolds(req[r].user)) >= 2) =>
         /\ req'[r].pc = "done" /\ req'[r].resp = 429
         /\ req'[r].oid = 0 /\ req'[r].mails = 0
         /\ UNCHANGED store]_vars

\* C4 witness: a request of a user with two open holds was answered 429 and
\* the user still has exactly those two orders.
ThirdHoldRefused ==
  \E r \in Slots :
    /\ req[r].kind = "createPickupOrder" /\ req[r].pc = "done" /\ req[r].resp = 429
    /\ Cardinality(OpenHolds(req[r].user)) = 2
    /\ DOMAIN order = {1, 2} /\ Len(order_item) = 2

\* ------------------------- expiry runs overlapping each other and mark-paid
\* No createPickupOrder request is between its insert and its last decrement.
HoldsSettled == \A r \in Slots : req[r].kind = "createPickupOrder" => req[r].pc = "done"

NextExpiryRace ==
  \/ \E q \in 1..MaxQty :
       AllFree /\ SeqRoom /\ StartCreatePickupOrder(1, "u1", <<[id |-> "P1", quantity |-> q]>>)
  \/ PickupHoldLookup(1)
  \/ PickupFetchProducts(1)
  \/ PickupInsertOrder(1)
  \/ PickupInsertItems(1)
  \/ DecrementRpc(1)
  \/ DecrementRpcMissing(1)
  \/ DecrementSelect(1)
  \/ DecrementUpdate(1)
  \/ \E r \in Slots : HoldsSettled /\ StartCancelExpired(r)
  \/ \E r \in Slots : ExpiryFetch(r)
  \/ \E r \in Slots : ExpiryFetchItems(r)
  \/ \E r \in Slots : ExpiryUpdate(r)
  \/ \E r \in Slots : IncrementSelect(r)
  \/ \E r \in Slots : IncrementUpdate(r)
  \/ \E oid \in SeqOrderIds : StartMarkOrderPaid(2, oid)
  \/ MarkPaidRead(2)
  \/ MarkPaidWrite(2)
  \/ Tick

SpecExpiryRace == InitFullStock /\ [][NextExpiryRace]_vars

\* C7: once markOrderPaid has set a hold's payment_status to paid, the hold
\* stays awaiting_pickup and paid whatever an expiry run does.
PaidHoldNeverAutoCanceled ==
  [][\A o \in DOMAIN order :
       (order[o].status = "awaiting_pickup" /\ order[o].shipping_info.payment_status = "paid") =>
         /\ order'[o].status = "awaiting_pickup"
         /\ order'[o].shipping_info.payment_status = "paid"]_vars

Held(p) ==
  LET open == {o \in DOMAIN order : order[o].status = "awaiting_pickup"}
      rows == SelectSeq(order_item, LAMBDA it : it.order_id \in open)
  IN SumQty(rows, p)

\* C8: however expiry runs overlap, a hold is canceled once, by a run that
\* finds it awaiting pickup, and its items are restocked at most once: with
\* no request under way, stock on hand plus stock held by open holds never
\* exceeds the stock the products started with.
ExpiryRestocksOnce ==
  /\ [](AllFree => \A p \in Products : product[p].quantity + Held(p) <= MaxStock)
  /\ [][\A r \in Slots : Stepped(r, "ce_update") => order[req[r].oid].status = "awaiting_pickup"]_vars


\* ------------------------------------ cancelOrder by any caller, in turn
NextCancel ==
  \/ \E items \in OrderItemSeqs, a \in OrderArgs : SeqRoom /\ StartCreateOrder(1, "u1", items, a)
  \/ CreateOrderLoadUser(1)
  \/ CreateOrderInsert(1)
  \/ CreateOrderEnrich(1)
  \/ CreateOrderInsertItems(1)
  \/ CreateOrderPoints(1)
  \/ \E u \in Users, admin \in BOOLEAN, oid \in SeqOrderIds : StartCancelOrder(1, u, admin, oid)
  \/ CancelLoad(1)
  \/ CancelFetchItems(1)
  \/ CancelUpdate(1)
  \/ \E oid \in SeqOrderIds : CancelEmailTimer(oid)
  \/ DecrementRpc(1)
  \/ DecrementRpcMissing(1)
  \/ DecrementSelect(1)
  \/ DecrementUpdate(1)
  \/ IncrementSelect(1)
  \/ IncrementUpdate(1)

SpecCancel == Init /\ [][NextCancel]_vars

\* Slot r takes a step of a cancelOrder request.
CancelStep(r) == req[r].kind = "cancelOrder" /\ req[r].pc # "done" /\ req'[r] # req[r]

\* C11: cancelOrder, called by the owner or an admin on an existing order
\* whose status is not Pending, answers 400; no order row, product quantity,
\* item row or points balance changes and no email is sent.
CancelRefusesProcessed ==
  [][\A r \in Slots :
       (/\ Stepped(r, "ca_load")
        /\ req[r].oid \in DOMAIN order
        /\ order[req[r].oid].user_id = req[r].user \/ req[r].admin
        /\ order[req[r].oid].status # "Pending") =>
         /\ req'[r].pc = "done" /\ req'[r].resp = 400 /\ req'[r].mails = 0
         /\ UNCHANGED <<store, sentCancelEmails>>]_vars

\* C11 witness: the owner's cancelOrder on a stocked, non-Pending order with
\* items was answered 400 and the order still has its status.
ProcessedOrderKept ==
  \E r \in Slots :
    /\ req[r].kind = "cancelOrder" /\ req[r].pc = "done" /\ req[r].resp = 400
    /\ req[r].oid \in DOMAIN order
    /\ order[req[r].oid].user_id = req[r].user
    /\ order[req[r].oid].status = "awaiting_pickup"
    /\ ItemsOf(req[r].oid) # <<>>

\* C12: a cancelOrder step changes an order or a product quantity only for
\* a caller who owns the order or is an admin; a caller who is neither is
\* answered 403 and nothing changes.
CancelNeedsOwnerOrAdmin ==
  [][\A r \in Slots :
       /\ (CancelStep(r) /\ (order' # order \/ product' # product)) =>
            /\ req[r].oid \in DOMAIN order
            /\ order[req[r].oid].user_id = req[r].user \/ req[r].admin
       /\ (/\ Stepped(r, "ca_load")
           /\ req[r].oid \in DOMAIN order
           /\ order[req[r].oid].user_id # req[r].user
           /\ ~req[r].admin) =>
            /\ req'[r].pc = "done" /\ req'[r].resp = 403 /\ req'[r].mails = 0
            /\ UNCHANGED <<store, sentCancelEmails>>]_vars

\* C12 witness: a stranger's cancelOrder on a Pending order with items was
\* answered 403 and the order is still Pending.
StrangerRefused ==
  \E r \in Slots :
    /\ req[r].kind = "cancelOrder" /\ req[r].pc = "done" /\ req[r].resp = 403
    /\ req[r].oid \in DOMAIN order
    /\ order[req[r].oid].user_id # req[r].user
    /\ order[req[r].oid].status = "Pending"
    /\ ItemsOf(req[r].oid) # <<>>


\* --------------------------- order creation with a store that can fail
NextFaults ==
  \/ \E items \in PickupItemSeqs : SeqRoom /\ StartCreatePickupOrder(1, "u1", items)
  \/ PickupHoldLookup(1)
  \/ PickupFetchProducts(1)
  \/ PickupInsertOrder(1)
  \/ PickupInsertItems(1)
  \/ PickupInsertItemsError(1)
  \/ PickupRollback(1)
  \/ PickupRollbackError(1)
  \/ \E items \in OrderItemSeqs, a \in OrderArgs : SeqRoom /\ StartCreateOrder(1, "u1", items, a)
  \/ CreateOrderLoadUser(1)
  \/ CreateOrderInsert(1)
  \/ CreateOrderEnrich(1)
  \/ CreateOrderInsertItems(1)
  \/ CreateOrderInsertItemsError(1)
  \/ CreateOrderRollback(1)
  \/ CreateOrderRollbackError(1)
  \/ CreateOrderPoints(1)
  \/ DecrementRpc(1)
  \/ DecrementRpcMissing(1)
  \/ DecrementSelect(1)
  \/ DecrementUpdate(1)
  \/ LedgerStoreError(1)

SpecFaults == Init /\ [][NextFaults]_vars

CreateKinds == {"createOrder", "createPickupOrder"}

\* C13: when the item insert of createOrder / createPickupOrder fails, the
\* request touches nothing but the order row it inserted: it attempts to
\* delete that row and answers 500 with no email; stock, item rows and
\* points stay as they were, and unless the delete itself failed the order
\* row is gone.
ItemFailureRollsBack ==
  [][\A r \in Slots :
       /\ (req[r].pc \in {"cp_items", "co_items"} /\ req'[r].pc \in {"cp_rollback", "co_rollback"}) =>
            UNCHANGED store
       /\ (req[r].pc \in {"cp_rollback", "co_rollback"} /\ req'[r] # req[r]) =>
            /\ req'[r].pc = "done" /\ req'[r].resp = 500 /\ req'[r].mails = 0
            /\ UNCHANGED <<product, order_item, user>>
            /\ ItemsOf(req[r].oid) = <<>>
            /\ \A o \in DOMAIN order \ {req[r].oid} : o \in DOMAIN order' /\ order'[o] = order[o]
            /\ ~req'[r].rbErr => req[r].oid \notin DOMAIN order']_vars

\* C13 witness: a createOrder request answered 500 after
\* its item insert failed; its order row is gone, the buyer's points and
\* all stock are untouched.
OrderRolledBack ==
  \E r \in Slots :
    /\ req[r].kind = "createOrder" /\ req[r].pc = "done" /\ req[r].resp = 500
    /\ req[r].oid # 0 /\ ~req[r].rbErr
    /\ req[r].oid \notin DOMAIN order
    /\ nextOrderId > req[r].oid
    /\ order_item = <<>>
    /\ user[req[r].user].points = 100

\* C14: when a decrement of a createOrder request fails, nothing is rolled
\* back and the request goes on with the next item (or, after the last, with
\* the points update); the points update answers 201 with the order row and
\* all item rows persisted.
DecrementFailureTolerated ==
  [][\A r \in Slots :
       LET s == req[r] IN
       /\ (s.kind = "createOrder" /\ req'[r].failed = s.failed + 1) =>
            /\ UNCHANGED store
            /\ s.oid \in DOMAIN order
            /\ Len(ItemsOf(s.oid)) = Len(s.items)
            /\ IF s.idx < Len(s.items)
                 THEN /\ req'[r].pc = "co_dec" /\ req'[r].lpc = "rpc"
                      /\ req'[r].idx = s.idx + 1
                      /\ req'[r].pid = s.items[s.idx + 1].id
                 ELSE req'[r].pc = "co_points" /\ req'[r].lpc = "none"
       /\ (s.kind = "createOrder" /\ Stepped(r, "co_points")) =>
            /\ req'[r].pc = "done" /\ req'[r].resp = 201
            /\ UNCHANGED <<order, order_item, product>>
            /\ s.oid \in DOMAIN order
            /\ Len(ItemsOf(s.oid)) = Len(s.items)
            /\ user'[s.user].points = s.n1 - s.arg.pointsUsed + (order[s.oid].total_amount \div 100)]_vars

\* C14 witness: a two-item createOrder was answered 201 although exactly one
\* of its decrements failed; the other product was still decremented and
\* both item rows are there.
OrderKeptDespiteFailedDecrement ==
  \E r \in Slots :
    /\ req[r].kind = "createOrder" /\ req[r].pc = "done" /\ req[r].resp = 201
    /\ req[r].failed = 1
    /\ req[r].oid \in DOMAIN order
    /\ Len(ItemsOf(req[r].oid)) = 2
    /\ ItemsOf(req[r].oid)[1].product_id = "P1"
    /\ ItemsOf(req[r].oid)[2].product_id = "P2"
    /\ product["P2"].quantity = MaxStock - 1

\* Order creation by overlapping requests of one user.
NextCreateRace ==
  \E r \in Slots :
    \/ StartCreatePickupOrder(r, "u1", <<[id |-> "P1", quantity |-> 1], [id |-> "P2", quantity |-> 1]>>)
    \/ PickupHoldLookup(r)
    \/ PickupFetchProducts(r)
    \/ PickupInsertOrder(r)
    \/ PickupInsertItems(r)
    \/ StartCreateOrder(r, "u1", <<[id |-> "P1", quantity |-> 1, price |-> 200]>>, OrderArg("", "standard", 500, 0))
    \/ CreateOrderLoadUser(r)
    \/ CreateOrderInsert(r)
    \/ CreateOrderEnrich(r)
    \/ CreateOrderInsertItems(r)
    \/ CreateOrderPoints(r)
    \/ DecrementRpc(r)
    \/ DecrementRpcMissing(r)
    \/ DecrementSelect(r)
    \/ DecrementUpdate(r)

SpecCreateRace == InitFullStock /\ [][NextCreateRace]_vars

\* C20: a request of createOrder / createPickupOrder inserts item rows only
\* for an order row that is there, changes stock only when that order row
\* and one item row per requested item are there, and updates the points
\* only after the decrement loop is over.
WritesInOrder ==
  [][\A r \in Slots :
       LET s == req[r] IN
       (s.kind \in CreateKinds /\ s.pc # "done" /\ req'[r] # s) =>
         /\ order' # order /\ s.pc \notin {"cp_rollback", "co_rollback"} =>
              /\ s.oid = 0 /\ req'[r].oid \notin DOMAIN order
              /\ order_item' = order_item /\ product' = product /\ user' = user
         /\ order_item' # order_item =>
              /\ s.oid \in DOMAIN order /\ ItemsOf(s.oid) = <<>>
              /\ product' = product /\ user' = user
         /\ product' # product =>
              /\ s.oid \in DOMAIN order
              /\ Len(ItemsOf(s.oid)) = Len(s.items)
              /\ user' = user
         /\ user' # user =>
              /\ s.oid \in DOMAIN order
              /\ Len(ItemsOf(s.oid)) = Len(s.items)
              /\ s.idx > Len(s.items) /\ s.lpc = "none"]_vars

\* C20 witness: a two-item pickup order has had its first item decremented
\* and is about to decrement the second; order row and both item rows exist.
DecrementingAfterRows ==
  \E r \in Slots :
    /\ req[r].kind = "createPickupOrder" /\ req[r].pc = "cp_dec" /\ req[r].idx = 2
    /\ req[r].oid \in DOMAIN order
    /\ Len(ItemsOf(req[r].oid)) = 2
    /\ \E p \in Products : product[p].quantity < req[r].prods[p].quantity


\* ---------------------------------------------- pricing of createOrder
\* Request amounts in cents, multiples of 20 so that 5 % and 10 % are whole
\* cents; a negative amount exercises the clamp.
Amounts == {2000, 1980, -2000}

PricedArgs ==
  [totalAmount : Amounts, pointsUsed : {0, 50, 75, 100}, status : {""},
   shipping_method : {"standard"}, fee : {0, 500},
   isLocalPickup : BOOLEAN, isLocal : BOOLEAN]

NextPricing ==
  \/ \E a \in PricedArgs :
       SeqRoom /\ StartCreateOrder(1, "u1", <<[id |-> "P1", quantity |-> 1, price |-> 200]>>, a)
  \/ CreateOrderLoadUser(1)
  \/ CreateOrderInsert(1)
  \/ CreateOrderEnrich(1)
  \/ CreateOrderInsertItems(1)
  \/ CreateOrderPoints(1)
  \/ DecrementRpc(1)
  \/ DecrementRpcMissing(1)
  \/ DecrementSelect(1)
  \/ DecrementUpdate(1)

SpecPricing == InitFullStock /\ [][NextPricing]_vars

\* The percentage of an amount, for amounts where it is a whole number.
PercentOf(pct, amount) == CHOOSE d \in -10000..10000 : d * 100 = pct * amount

\* C15: the order row createOrder inserts carries total_amount =
\* max(0, totalAmount - discount + shippingFee), discount being 5 % of
\* totalAmount for pointsUsed 50, 10 % for 100 and 0 otherwise, shippingFee
\* 0 for a request flagged local pickup and shippingInfo.fee otherwise.
TotalIsDiscountedPlusFee ==
  [][\A r \in Slots :
       Stepped(r, "co_insert") =>
         LET a == req[r].arg
             discount == CASE a.pointsUsed = 50 -> PercentOf(5, a.totalAmount)
                           [] a.pointsUsed = 100 -> PercentOf(10, a.totalAmount)
                           [] OTHER -> 0
             shippingFee == IF a.isLocalPickup \/ a.isLocal THEN 0 ELSE a.fee
             due == a.totalAmount - discount + shippingFee
         IN /\ req'[r].oid \in DOMAIN order' \ DOMAIN order
            /\ order'[req'[r].oid].total_amount = (IF due > 0 THEN due ELSE 0)
            /\ order'[req'[r].oid].points_used = a.pointsUsed]_vars

\* C15 witness: the order for totalAmount 20.00 with pointsUsed 50 and
\* pickup is persisted with total 19.00 although a fee was quoted.
PickupTotalNineteen ==
  \E r \in Slots :
    /\ req[r].kind = "createOrder" /\ req[r].pc = "co_enrich"
    /\ req[r].arg.totalAmount = 2000 /\ req[r].arg.pointsUsed = 50
    /\ req[r].arg.isLocalPickup /\ req[r].arg.fee = 500
    /\ order[req[r].oid].total_amount = 1900

\* C16: the points update of createOrder sets the buyer's balance to the
\* balance before minus pointsUsed plus the whole dollars of the persisted
\* total, and the request answers 201.
PointsFollowTotal ==
  [][\A r \in Slots :
       (req[r].kind = "createOrder" /\ Stepped(r, "co_points")) =>
         LET o == order[req[r].oid]
             dollars == CHOOSE n \in 0..100 : n * 100 <= o.total_amount /\ o.total_amount < (n + 1) * 100
         IN /\ req'[r].resp = 201
            /\ user'[req[r].user].points = user[req[r].user].points - o.points_used + dollars
            /\ \A u \in Users \ {req[r].user} : user'[u] = user[u]]_vars

\* C16 witness: an order of 18.81 paid with 50 points was answered 201 and
\* the balance went from 100 to 68.
PointsFlooredAfterOrder ==
  \E r \in Slots :
    /\ req[r].kind = "createOrder" /\ req[r].pc = "done" /\ req[r].resp = 201
    /\ order[req[r].oid].total_amount = 1881
    /\ order[req[r].oid].points_used = 50
    /\ user[req[r].user].points = 68


\* ------------------------------------------- the two decrement paths
\* C19: a decrement on the RPC path takes its amount off the quantity the
\* product has at that moment, so none is lost; on the fallback path the
\* select records the quantity of its own moment and the later update
\* stores max(0, that reading - amount) whatever was written in between,
\* so of two overlapping decrements only one shows in the final quantity.
FallbackWritesFromItsRead ==
  [][\A r \in Slots :
       LET s == req[r] IN
       (s.kind = "decrement" /\ req'[r] # s) =>
         /\ (s.lpc = "rpc" /\ req'[r].pc = "done") =>
              product'[s.pid].quantity =
                (IF product[s.pid].quantity > s.qty THEN product[s.pid].quantity - s.qty ELSE 0)
         /\ s.lpc = "dread" =>
              /\ product' = product
              /\ req'[r].pc = "done" \/ req'[r].cur = product[s.pid].quantity
         /\ (s.lpc = "dwrite" /\ req'[r].n2 = 0) =>
              product'[s.pid].quantity = (IF s.cur > s.qty THEN s.cur - s.qty ELSE 0)]_vars

\* C19 witness: two fallback decrements of one unit read the same quantity;
\* one has written, the other is about to write the same value again.
StaleDecrementPending ==
  \E r1, r2 \in Slots :
    /\ r1 # r2
    /\ req[r1].kind = "decrement" /\ req[r1].pc = "done" /\ req[r1].n1 = 1
    /\ req[r2].kind = "decrement" /\ req[r2].lpc = "dwrite"
    /\ req[r1].pid = req[r2].pid
    /\ req[r1].qty = 1 /\ req[r2].qty = 1
    /\ req[r1].cur = req[r2].cur /\ req[r2].cur >= 2
    /\ product[req[r2].pid].quantity = req[r2].cur - 1


\* ------------------- cancellation notices: cancelOrder and updateOrderStatus
StatusInputs == {"Canceled", "Shipped", "Delivered", "Refunded"}
TrackingInputs == {"", "TRK1"}

NextCancelMail ==
  \/ SeqRoom /\ StartCreateOrder(1, "u1", <<[id |-> "P1", quantity |-> 1, price |-> 200]>>,
                                 OrderArg("", "standard", 500, 0))
  \/ CreateOrderLoadUser(1)
  \/ CreateOrderInsert(1)
  \/ CreateOrderEnrich(1)
  \/ CreateOrderInsertItems(1)
  \/ CreateOrderPoints(1)
  \/ \E r \in Slots, admin \in BOOLEAN, oid \in SeqOrderIds : StartCancelOrder(r, "u1", admin, oid)
  \/ \E r \in Slots : CancelLoad(r) \/ CancelFetchItems(r) \/ CancelUpdate(r)
  \/ \E oid \in SeqOrderIds, st \in StatusInputs, tc \in TrackingInputs :
       StartUpdateOrderStatus(2, oid, st, tc)
  \/ StatusLoad(2)
  \/ StatusUpdate(2)
  \/ \E ok \in BOOLEAN : StatusShipNotify(2, ok)
  \/ \E ok \in BOOLEAN : StatusCancelMail(2, ok)
  \/ \E ok \in BOOLEAN : StatusAdminCancelMail(2, ok)
  \/ \E oid \in SeqOrderIds : CancelEmailTimer(oid)
  \/ \E r \in Slots : DecrementRpc(r) \/ DecrementRpcMissing(r) \/ DecrementSelect(r) \/ DecrementUpdate(r)
  \/ \E r \in Slots : IncrementSelect(r) \/ IncrementUpdate(r)

SpecCancelMail == InitFullStock /\ [][NextCancelMail]_vars

\* Slot r sends a cancellation email for the order it works on.
CancelMailsSent(r) ==
  \/ Stepped(r, "ca_update") /\ req'[r].mails = 2
  \/ Stepped(r, "us_cmail")
  \/ Stepped(r, "us_amail")

\* C17: a cancellation email for an order is sent only while the order id is
\* not in the suppression guard, by cancelOrder and by updateOrderStatus
\* alike, so that the emails go out at most once within the window.
CancelMailsOncePerWindow ==
  [][\A r \in Slots : CancelMailsSent(r) => req[r].oid \notin sentCancelEmails]_vars


\* ------------------------------------------ email outcomes, requests in turn
NextMail ==
  \/ \E items \in PickupItemSeqs : SeqRoom /\ StartCreatePickupOrder(1, "u1", items)
  \/ PickupHoldLookup(1)
  \/ PickupFetchProducts(1)
  \/ PickupInsertOrder(1)
  \/ PickupInsertItems(1)
  \/ SeqRoom /\ StartCreateOrder(1, "u1", <<[id |-> "P1", quantity |-> 1, price |-> 200]>>,
                                 OrderArg("", "standard", 500, 50))
  \/ CreateOrderLoadUser(1)
  \/ CreateOrderInsert(1)
  \/ CreateOrderEnrich(1)
  \/ CreateOrderInsertItems(1)
  \/ CreateOrderPoints(1)
  \/ \E oid \in SeqOrderIds : StartCancelOrder(1, "u1", FALSE, oid)
  \/ CancelLoad(1)
  \/ CancelFetchItems(1)
  \/ CancelUpdate(1)
  \/ \E oid \in SeqOrderIds, st \in StatusInputs, tc \in TrackingInputs :
       StartUpdateOrderStatus(1, oid, st, tc)
  \/ StatusLoad(1)
  \/ StatusUpdate(1)
  \/ \E ok \in BOOLEAN : StatusShipNotify(1, ok)
  \/ \E ok \in BOOLEAN : StatusCancelMail(1, ok)
  \/ \E ok \in BOOLEAN : StatusAdminCancelMail(1, ok)
  \/ \E ok \in BOOLEAN : MailSettle(1, ok)
  \/ \E oid \in SeqOrderIds : CancelEmailTimer(oid)
  \/ DecrementRpc(1)
  \/ DecrementRpcMissing(1)
  \/ DecrementSelect(1)
  \/ DecrementUpdate(1)
  \/ IncrementSelect(1)
  \/ IncrementUpdate(1)

SpecMail == Init /\ [][NextMail]_vars

MailKinds == {"createOrder", "createPickupOrder", "cancelOrder", "updateOrderStatus"}

\* The request record with the outcomes of its sends left out.
WithoutMailOutcome(s) == [s EXCEPT !.mdone = 0, !.mfail = 0]

\* Where updateOrderStatus goes after an awaited send, whatever its outcome.
AfterSendPc(pc) ==
  CASE pc = "us_ship1" -> "us_ship2"
    [] pc = "us_cmail" -> "us_amail"
    [] OTHER -> "done"

\* C18: in createOrder, createPickupOrder, cancelOrder and updateOrderStatus
\* a step in which an email send succeeds or fails changes no order, item,
\* stock or points state; a send that was not awaited leaves the request and
\* its response as they were, and an awaited send (one that starts and
\* settles in the same step) takes the request to the same next step, and to
\* the answer 200, whether it succeeded or failed.
MailOutcomeChangesNothing ==
  [][\A r \in Slots :
       (req[r].kind \in MailKinds /\ req'[r].mdone = req[r].mdone + 1) =>
         /\ UNCHANGED <<store, sentCancelEmails>>
         /\ IF req'[r].mails = req[r].mails + 1
              THEN /\ req[r].pc \in {"us_ship1", "us_ship2", "us_cmail", "us_amail"} /\ req'[r].pc = AfterSendPc(req[r].pc)
                   /\ req'[r].resp = IF req'[r].pc = "done" THEN 200 ELSE 0
                   /\ req'[r].oid = req[r].oid
              ELSE WithoutMailOutcome(req'[r]) = WithoutMailOutcome(req[r])]_vars

\* C18 witness: updateOrderStatus to Canceled was answered 200 with the order
\* canceled although the admin notice and both cancellation emails failed.
AnsweredDespiteFailedMail ==
  \E r \in Slots :
    /\ req[r].kind = "updateOrderStatus" /\ req[r].pc = "done" /\ req[r].resp = 200
    /\ req[r].mails = 3 /\ req[r].mdone = 3 /\ req[r].mfail = 3
    /\ req[r].oid \in DOMAIN order
    /\ order[req[r].oid].status = "Canceled"

\* ------------------------------------- updateOrderStatus: which mails go out
\* Slot r sends the generic admin status-change notice (not awaited).
GenericNoticeSent(r) == Stepped(r, "us_update") /\ req'[r].mails = 1

\* Slot r sends a shipping notification.
ShippingNoticeSent(r) == Stepped(r, "us_ship1") \/ Stepped(r, "us_ship2")

\* C21: a call of updateOrderStatus sends one kind of notification: for
\* Shipped with a tracking code one shipping notification, the first send of
\* the call, with the tracking code persisted; for Canceled the cancellation
\* emails and no generic notice; the generic admin notice in the other cases.
OneKindOfNotice ==
  [][\A r \in Slots :
       /\ GenericNoticeSent(r) =>
            req[r].arg.status # "Canceled" /\ ~ShippedWithTracking(req[r].arg)
       /\ ShippingNoticeSent(r) =>
            /\ ShippedWithTracking(req[r].arg)
            /\ req[r].mails = 0
            /\ order[req[r].oid].tracking_code = req[r].arg.trackingCode
       /\ (Stepped(r, "us_cmail") \/ Stepped(r, "us_amail")) =>
            req[r].arg.status = "Canceled"]_vars

\* C22: no step of an updateOrderStatus request changes a product quantity,
\* an item row or a points balance, whatever the order's status was.
StatusUpdateKeepsStock ==
  [][\A r \in Slots :
       (req'[r].kind = "updateOrderStatus" /\ req'[r] # req[r]) =>
         UNCHANGED <<product, order_item, user>>]_vars

\* C22 witness: updateOrderStatus has set an order with an item row of P1 to
\* Canceled and the stock taken by the order is still missing from P1.
CanceledByAdminNotRestocked ==
  \E r \in Slots :
    /\ req[r].kind = "updateOrderStatus" /\ req[r].pc = "done" /\ req[r].resp = 200
    /\ req[r].oid \in DOMAIN order
    /\ order[req[r].oid].status = "Canceled"
    /\ SumQty(ItemsOf(req[r].oid), "P1") > 0
    /\ product["P1"].quantity = MaxStock - SumQty(ItemsOf(req[r].oid), "P1")

\* ------------------------------------------- canceling a pickup hold by hand
NextHoldCancel ==
  \/ \E items \in PickupItemSeqs : SeqRoom /\ StartCreatePickupOrder(1, "u1", items)
  \/ PickupHoldLookup(1)
  \/ PickupFetchProducts(1)
  \/ PickupInsertOrder(1)
  \/ PickupInsertItems(1)
  \/ SeqRoom /\ StartCreateOrder(1, "u1", <<[id |-> "P1", quantity |-> 1, price |-> 200]>>,
                                 OrderArg("", "standard", 500, 0))
  \/ CreateOrderLoadUser(1)
  \/ CreateOrderInsert(1)
  \/ CreateOrderEnrich(1)
  \/ CreateOrderInsertItems(1)
  \/ CreateOrderPoints(1)
  \/ \E u \in Users, admin \in BOOLEAN, oid \in SeqOrderIds : StartCancelOrder(1, u, admin, oid)
  \/ \E id \in SeqOrderIds : StartAdminCancel(1, "u2", id)
  \/ CancelLoad(1)
  \/ CancelFetchItems(1)
  \/ CancelUpdate(1)
  \/ DecrementRpc(1)
  \/ DecrementRpcMissing(1)
  \/ DecrementSelect(1)
  \/ DecrementUpdate(1)
  \/ IncrementSelect(1)
  \/ IncrementUpdate(1)

SpecHoldCancel == Init /\ [][NextHoldCancel]_vars

\* The order the caller of a cancelOrder request named.
CancelTarget(s) == IF "id" \in DOMAIN s.arg THEN s.arg.id ELSE s.oid

\* C23: a cancelOrder request by the owner or an admin that names a pickup
\* hold in status awaiting_pickup is answered 200 and the hold leaves the
\* open state, so that it no longer counts toward the cap.
HoldCancelable ==
  [][\A r \in Slots :
       (/\ CancelStep(r) /\ req'[r].pc = "done"
        /\ CancelTarget(req[r]) \in DOMAIN order
        /\ PickupCreated(CancelTarget(req[r]))
        /\ order[CancelTarget(req[r])].status = "awaiting_pickup"
        /\ order[CancelTarget(req[r])].user_id = req[r].user \/ req[r].admin) =>
         /\ req'[r].resp = 200
         /\ order'[CancelTarget(req[r])].status # "awaiting_pickup"]_vars

\* --------------------------------------------------- deleteOrder, in turn
NextDelete ==
  \/ \E items \in PickupItemSeqs : SeqRoom /\ StartCreatePickupOrder(1, "u1", items)
  \/ PickupHoldLookup(1)
  \/ PickupFetchProducts(1)
  \/ PickupInsertOrder(1)
  \/ PickupInsertItems(1)
  \/ SeqRoom /\ StartCreateOrder(1, "u1", <<[id |-> "P1", quantity |-> 1, price |-> 200]>>,
                                 OrderArg("", "standard", 500, 0))
  \/ CreateOrderLoadUser(1)
  \/ CreateOrderInsert(1)
  \/ CreateOrderEnrich(1)
  \/ CreateOrderInsertItems(1)
  \/ CreateOrderPoints(1)
  \/ \E oid \in SeqOrderIds : StartDeleteOrder(1, oid)
  \/ DeleteLoad(1)
  \/ DeleteItems(1)
  \/ \E fk \in ForeignKeyRules : DeleteOrderRow(1, fk)
  \/ DecrementRpc(1)
  \/ DecrementRpcMissing(1)
  \/ DecrementSelect(1)
  \/ DecrementUpdate(1)

SpecDelete == Init /\ [][NextDelete]_vars

\* C24: when deleteOrder answers 200 for an order, the order row and every
\* item row that refers to it are gone, and no product quantity has changed
\* during the request.
DeleteCascades ==
  [][\A r \in Slots :
       /\ (Stepped(r, "do_order") /\ req'[r].resp = 200) =>
            /\ req[r].oid \notin DOMAIN order'
            /\ SelectSeq(order_item', LAMBDA it : it.order_id = req[r].oid) = <<>>
       /\ (req[r].kind = "deleteOrder" /\ req'[r] # req[r]) => UNCHANGED product]_vars

\* ---------------------------------- createOrder then cancelOrder, no faults
\* P1 is ordered; P2 is never ordered and starts with the same stock as P1,
\* so P2 keeps the stock that P1 started with.
InitRoundTrip ==
  /\ \E q \in 0..MaxStock :
       product = [p \in Products |-> [quantity |-> q, price |-> 200, brand_segment |-> "nails"]]
  /\ order = <<>>
  /\ order_item = <<>>
  /\ user = [u \in Users |-> [points |-> 100]]
  /\ nextOrderId = 1
  /\ sentCancelEmails = {}
  /\ now = 0
  /\ req = [r \in Slots |-> IdleReq]

RoundTripItemSeqs ==
  {<<[id |-> "P1", quantity |-> q, price |-> 200]>> : q \in 1..MaxQty}
  \cup {<<[id |-> "P1", quantity |-> q, price |-> 200],
          [id |-> "P1", quantity |-> 1, price |-> 200]>> : q \in 1..MaxQty}

NextRoundTrip ==
  \/ \E items \in RoundTripItemSeqs :
       SeqRoom /\ AllFree /\ (\A o \in DOMAIN order : order[o].status = "Canceled")
               /\ StartCreateOrder(1, "u1", items, OrderArg("", "standard", 500, 0))
  \/ CreateOrderLoadUser(1)
  \/ CreateOrderInsert(1)
  \/ CreateOrderEnrich(1)
  \/ CreateOrderInsertItems(1)
  \/ CreateOrderPoints(1)
  \/ \E oid \in SeqOrderIds : StartCancelOrder(1, "u1", FALSE, oid)
  \/ CancelLoad(1)
  \/ CancelFetchItems(1)
  \/ CancelUpdate(1)
  \/ DecrementRpc(1)
  \/ DecrementRpcMissing(1)
  \/ DecrementSelect(1)
  \/ DecrementUpdate(1)
  \/ IncrementSelect(1)
  \/ IncrementUpdate(1)

SpecRoundTrip == InitRoundTrip /\ [][NextRoundTrip]_vars

\* Every order placed so far has been canceled and no request is running.
RoundTripDone ==
  /\ AllFree
  /\ order # <<>>
  /\ \A o \in DOMAIN order : order[o].status = "Canceled"

\* C25: when every standard order placed by createOrder has been canceled
\* by cancelOrder, the ordered product's quantity is what it was before
\* createOrder (the quantity the unordered product P2 still has), for every
\* initial stock and every ordered quantity.
RoundTripRestoresStock ==
  RoundTripDone => product["P1"].quantity = product["P2"].quantity

\* ----------------------- cancelOrder twice, and again after a status reset
\* No createOrder request is between its insert and its last step.
OrdersSettled == \A r \in Slots : req[r].kind = "createOrder" => req[r].pc = "done"

NextRestock ==
  \/ SeqRoom /\ StartCreateOrder(1, "u1", <<[id |-> "P1", quantity |-> 1, price |-> 200]>>,
                                 OrderArg("", "standard", 500, 0))
  \/ CreateOrderLoadUser(1)
  \/ CreateOrderInsert(1)
  \/ CreateOrderEnrich(1)
  \/ CreateOrderInsertItems(1)
  \/ CreateOrderPoints(1)
  \/ \E r \in Slots, oid \in DOMAIN order : OrdersSettled /\ StartCancelOrder(r, "u1", FALSE, oid)
  \/ \E r \in Slots : CancelLoad(r) \/ CancelFetchItems(r) \/ CancelUpdate(r)
  \/ \E oid \in SeqOrderIds, st \in {"Pending", "Delivered"} :
       /\ OrdersSettled
       /\ \A p \in Products : product[p].quantity <= MaxStock
       /\ StartUpdateOrderStatus(2, oid, st, "")
  \/ StatusLoad(2)
  \/ StatusUpdate(2)
  \/ \E r \in Slots : DecrementRpc(r) \/ DecrementRpcMissing(r) \/ DecrementSelect(r) \/ DecrementUpdate(r)
  \/ \E r \in Slots : IncrementSelect(r) \/ IncrementUpdate(r)

SpecRestock == InitFullStock /\ [][NextRestock]_vars

\* C26: an order's items are restocked at most once. Stock starts at
\* MaxStock, only createOrder takes units and cancelOrder, started after the
\* order is complete, gives them back; so no product ever holds more than
\* MaxStock units.
RestockedAtMostOnce == \A p \in Products : product[p].quantity <= MaxStock

\* C27: cancelOrder restocks and writes Canceled only on an order that is
\* still Pending at that moment: an order set to Shipped or Delivered after
\* the request read it is not overwritten and its items are not restocked.
CancelKeepsNonPending ==
  [][\A r \in Slots :
       (/\ req[r].kind = "cancelOrder" /\ req[r].oid \in DOMAIN order
        /\ order' # order \/ product' # product
        /\ req'[r] # req[r]) =>
         order[req[r].oid].status = "Pending"]_vars

\* ------------------------ overlapping createPickupOrder calls of two users
NextOversell ==
  \/ \E q \in 1..MaxQty : SeqRoom /\ StartCreatePickupOrder(1, "u1", <<[id |-> "P1", quantity |-> q]>>)
  \/ \E q \in 1..MaxQty : SeqRoom /\ StartCreatePickupOrder(2, "u2", <<[id |-> "P1", quantity |-> q]>>)
  \/ \E r \in Slots :
       \/ PickupHoldLookup(r)
       \/ PickupFetchProducts(r)
       \/ PickupInsertOrder(r)
       \/ PickupInsertItems(r)
       \/ DecrementRpc(r)
       \/ DecrementRpcMissing(r)
       \/ DecrementSelect(r)
       \/ DecrementUpdate(r)

SpecOversell == Init /\ [][NextOversell]_vars

\* C28: for each product the quantity on the item rows of awaiting_pickup
\* holds never exceeds the stock that was on hand before any hold was made
\* (at most MaxStock).
HoldsNeverOversell == \A p \in Products : Held(p) <= MaxStock

\* ----------------------------------------------- markOrderPickedUp, in turn
NextPickedUp ==
  \/ SeqRoom /\ StartCreatePickupOrder(1, "u1", <<[id |-> "P1", quantity |-> 1]>>)
  \/ PickupHoldLookup(1)
  \/ PickupFetchProducts(1)
  \/ PickupInsertOrder(1)
  \/ PickupInsertItems(1)
  \/ SeqRoom /\ StartCreateOrder(1, "u1", <<[id |-> "P1", quantity |-> 1, price |-> 200]>>,
                                 OrderArg("", "standard", 500, 0))
  \/ CreateOrderLoadUser(1)
  \/ CreateOrderInsert(1)
  \/ CreateOrderEnrich(1)
  \/ CreateOrderInsertItems(1)
  \/ CreateOrderPoints(1)
  \/ \E oid \in SeqOrderIds : StartCancelOrder(1, "u1", FALSE, oid)
  \/ CancelLoad(1)
  \/ CancelFetchItems(1)
  \/ CancelUpdate(1)
  \/ StartCancelExpired(1)
  \/ ExpiryFetch(1)
  \/ ExpiryFetchItems(1)
  \/ ExpiryUpdate(1)
  \/ \E oid \in SeqOrderIds : StartMarkOrderPickedUp(1, oid)
  \/ MarkPickedUpUpdate(1)
  \/ DecrementRpc(1)
  \/ DecrementRpcMissing(1)
  \/ DecrementSelect(1)
  \/ DecrementUpdate(1)
  \/ IncrementSelect(1)
  \/ IncrementUpdate(1)
  \/ Tick

SpecPickedUp == Init /\ [][NextPickedUp]_vars

\* C29: an order's status becomes picked_up only from awaiting_pickup; a
\* canceled or Canceled order and a non-pickup order keep their status.
PickedUpOnlyFromAwaiting ==
  [][\A o \in DOMAIN order \cap DOMAIN order' :
       (order'[o].status = "picked_up" /\ order[o].status # "picked_up") =>
         order[o].status = "awaiting_pickup"]_vars

\* ------------------------------------------- createOrder: points redeemed
PointsArgs ==
  [totalAmount : {2000, 0}, pointsUsed : {0, 50, 100, 150}, status : {""},
   shipping_method : {"standard"}, fee : {0, 500}, isLocalPickup : {FALSE}, isLocal : {FALSE}]

NextPoints ==
  \/ \E a \in PointsArgs :
       SeqRoom /\ StartCreateOrder(1, "u1", <<[id |-> "P1", quantity |-> 1, price |-> 200]>>, a)
  \/ CreateOrderLoadUser(1)
  \/ CreateOrderInsert(1)
  \/ CreateOrderEnrich(1)
  \/ CreateOrderInsertItems(1)
  \/ CreateOrderPoints(1)
  \/ DecrementRpc(1)
  \/ DecrementRpcMissing(1)
  \/ DecrementSelect(1)
  \/ DecrementUpdate(1)

SpecPoints == InitFullStock /\ [][NextPoints]_vars

\* C30: no user's points balance is ever negative, and createOrder deducts
\* no more points than the balance it read for the buyer.
PointsNeverNegative ==
  /\ [](\A u \in Users : user[u].points >= 0)
  /\ [][\A r \in Slots : Stepped(r, "co_points") => req[r].arg.pointsUsed <= req[r].n1]_vars

====
